---- MODULE Spec2Model ----
(***************************************************************************)
(* Cache-and-reconciliation layer of nps-workers.                          *)
(*                                                                         *)
(*   NPSCache (src/nps_cache.py)  the local SQLite store: workplace_cache, *)
(*                                sync_log (the change ledger)             *)
(*   NPSSync  (src/nps_sync.py)   the coordinator: read-through and drain  *)
(*                                against the remote PostgreSQL authority  *)
(*                                                                         *)
(* Two facts of the libraries the code is written against shape the model, *)
(* both observed by running src/nps_cache.py on CPython 3.11 / SQLite 3.40:*)
(*                                                                         *)
(*  1. sqlite3 opens a transaction before INSERT/UPDATE/DELETE and SQLite  *)
(*     admits one write transaction per database file.                     *)
(*     set_workplace_cache writes workplace_cache on its own connection    *)
(*     and, before committing, calls _log_sync_operation, which opens a    *)
(*     SECOND connection to the same file and inserts into sync_log. That  *)
(*     insert waits for the busy timeout and raises "database is locked".  *)
(*     The first connection is never closed on that path; its write        *)
(*     transaction is rolled back when the connection object is           *)
(*     finalised, and until then the file stays write-locked.              *)
(*                                                                         *)
(*  2. psycopg2 connections are not autocommit. After a statement fails on *)
(*     the server the transaction is aborted and every later statement on  *)
(*     that connection fails until rollback(); nps_sync.py never calls     *)
(*     rollback() (nps_save.py does).                                      *)
(***************************************************************************)
EXTENDS Naturals, Integers, Sequences, FiniteSets, TLC

\* ---------------------------------------------------------------- bounds
Seqs == {"T1", "T2"}
Names == {"Acme", "Bolt"}
MaxLog == 2
MaxAccess == 2

NULL == "NULL"

\* A local variable that no statement has assigned yet (a bound one is <<v>>)
Unbound == <<>>
RegNos == {NULL, "R1"}
Times == {0, 1}
MutOps == {"insert", "update", "delete"}
Ops == MutOps \cup {"other"}

\* ------------------------------------------------------------- variables
VARIABLES
  workplace_cache,     \* table workplace_cache: set of rows, seq UNIQUE
  sync_log,            \* table sync_log: sequence of entries in id order
  next_id,             \* AUTOINCREMENT counter of sync_log
  db_lock,             \* "free" | "leaked": an unclosed sqlite3 connection
                       \* still holds the write lock of the database file
  supabase_connection, \* "None" | "conn"  (NPSSync.supabase_connection)
  pg_status,           \* "ready" | "failed": state of the psycopg2 connection
  remote,              \* the remote authority: set of rows, seq UNIQUE
  drain_pc,            \* position inside sync_pending_operations
  pending_ops,         \* the entries the running drain has still to process
  drain_log,           \* what the running (or last) drain did, entry by entry
  drain_sync_id,       \* the local variable sync_id of the running drain
  last,                \* the last completed call and its result
  api_cache,           \* table api_cache: set of rows, request_hash UNIQUE
  now,                 \* the time, in hours (UTC)
  tz,                  \* the offset of the process's local time from UTC, in hours
  drain2,              \* a second process running sync_pending_operations on the
                       \* same database file and remote
  cache_lock,          \* NPSCache.lock of each cache object: "free" or the
                       \* caller inside a method
  calls                \* per caller of one NPSCache object: the method call it is in

dbVars == <<workplace_cache, sync_log, next_id>>
pgVars == <<supabase_connection, pg_status, remote>>
drainVars == <<drain_pc, pending_ops, drain_log, drain_sync_id>>
apiVars == <<api_cache, now, tz>>
concVars == <<drain2, cache_lock, calls>>
vars == <<workplace_cache, sync_log, next_id, db_lock, supabase_connection, pg_status, remote, drain_pc, pending_ops,
          drain_log, drain_sync_id, last, api_cache, now, tz, drain2, cache_lock, calls>>

\* ---------------------------------------------------------------- helpers
\* dict.get(key): None when the key is missing
Get(d, k) == IF k \in DOMAIN d THEN d[k] ELSE NULL

\* Python truthiness of a field value
Truthy(v) == v \notin {NULL, "0", ""}

\* rows of a table with the given seq (at most one: seq is UNIQUE)
RowsOf(table, s) == {r \in table : r.seq = s}

\* all orderings of a finite set as sequences
Perms(S) ==
  {f \in [1..Cardinality(S) -> S] : \A i, j \in 1..Cardinality(S) : i # j => f[i] # f[j]}

\* ------------------------------------------------------------ data shapes
\* The registration number the fixture rows carry
RegOf(s) == IF s = "T1" THEN "R1" ELSE NULL

\* A caller's workplace_data dict (API field names, as nps_workers.py builds it)
WorkplaceData(s) ==
  [seq |-> s, wkplNm |-> "Acme", bzowrRgstNo |-> RegOf(s), jnngpCnt |-> "10"]

\* The dicts set_workplace_cache is called with: complete ones and one
\* without a seq
Inputs == {WorkplaceData(s) : s \in Seqs} \cup {[wkplNm |-> "Acme"]}

\* The row INSERT OR REPLACE writes: columns the statement does not name take
\* their defaults (access_count 1), sync_status is 'pending'
NewRow(d) ==
  [seq |-> Get(d, "seq"), wkpl_nm |-> Get(d, "wkplNm"),
   bzowr_rgst_no |-> Get(d, "bzowrRgstNo"), jnngp_cnt |-> Get(d, "jnngpCnt"),
   access_count |-> 1, sync_status |-> "pending"]

\* seq TEXT UNIQUE NOT NULL, wkpl_nm TEXT NOT NULL
NotNullOk(d) == Get(d, "seq") # NULL /\ Get(d, "wkplNm") # NULL

\* A row of the remote authority, as _get_workplace_from_supabase returns it
\* (column names of the remote tables)
RemoteRow(s) ==
  [seq |-> s, wkpl_nm |-> "Acme", bzowr_rgst_no |-> RegOf(s), jnngp_cnt |-> "10"]

\* A sync_log row
LogEntry(id, operation, record_id, before, after, t) ==
  [id |-> id, table_name |-> "workplace_cache", operation |-> operation,
   record_id |-> record_id, data_before |-> before, data_after |-> after,
   sync_status |-> "pending", error_message |-> NULL, created_at |-> t,
   synced_at |-> NULL]

\* ------------------------------------------------- NPSCache: record writes
\* What the first statements of set_workplace_cache do on the call's own
\* connection: "none" (no statement for this operation), "locked" (another
\* connection holds the write lock), "integrity" (NOT NULL fails) or "wrote"
\* (the row change is in the connection's open transaction)
WriteOutcome(lock, d, operation) ==
  IF operation \notin MutOps THEN "none"
  ELSE IF lock = "leaked" THEN "locked"
  ELSE IF operation \in {"insert", "update"} /\ ~NotNullOk(d) THEN "integrity"
  ELSE "wrote"

\* The table after the call's statement: INSERT OR REPLACE replaces the whole
\* row of that seq, DELETE removes it
Written(table, d, operation) ==
  IF operation \in {"insert", "update"}
    THEN (table \ RowsOf(table, Get(d, "seq"))) \cup {NewRow(d)}
  ELSE IF operation = "delete" THEN table \ RowsOf(table, Get(d, "seq"))
  ELSE table

\* Variant: the second connection's insert is admitted although the caller's
\* transaction is open (what a shared connection would give)
LogBusy_m(txn) == FALSE

\* _log_sync_operation inserts on a second connection: SQLite refuses while
\* the caller's connection has its write transaction open
LogBusy(txn) == txn.operation \in MutOps

\* The entry _log_sync_operation inserts (data_before/data_after are stored
\* only when truthy; a set holds the stored value, {} is NULL)
LoggedEntry(txn, id, t) ==
  LogEntry(id, txn.operation, Get(txn.data, "seq"), txn.existing,
           IF txn.operation = "delete" THEN {} ELSE {txn.data}, t)

\* CURRENT_TIMESTAMP of an insert when the clock runs forward: not before the
\* newest entry
Stamps(log) ==
  {t \in Times : \A i \in 1..Len(log) : log[i].created_at <= t}

\* Calls are made one at a time: a call starts when none is in progress
Idle == drain_pc = "idle"

\* The callers that share one NPSCache object
Callers == {"c1", "c2"}

\* The NPSCache objects on the database file: the one NPSSync constructs
\* (self.cache) and one constructed apart from it, each with its own lock
Caches == {"sync.cache", "NPSCache()"}

\* A caller of sync.cache that is in no method and has been returned no hit
NoCall == [pc |-> "idle", method |-> NULL, api_hits |-> 0, record_hits |-> 0,
           cache |-> "sync.cache"]

\* One process, one caller: no second drain, nobody inside NPSCache.lock
NoConcurrency ==
  /\ drain2 = [pc |-> "idle", ops |-> <<>>, done |-> {}, status |-> "ready",
               sync_id |-> Unbound]
  /\ cache_lock = [o \in Caches |-> "free"]
  /\ calls = [c \in Callers |-> NoCall]

\* The arguments of a call and the row it found (SELECT ... WHERE seq = ?)
Txn(table, d, operation) ==
  [operation |-> operation, data |-> d, existing |-> RowsOf(table, Get(d, "seq"))]

\* One call of set_workplace_cache(d, operation) on the store
\* st = [table, log, next_id, lock, raised]: the store after it.
\*   - the statement raises (locked, NOT NULL): nothing is committed and the
\*     connection, left open, keeps the file locked;
\*   - _log_sync_operation raises: the same;
\*   - otherwise the entry is committed by _log_sync_operation's connection and
\*     then the row change by conn.commit().
set_workplace_cache(st, d, operation) ==
  LET out == WriteOutcome(st.lock, d, operation)
      txn == Txn(st.table, d, operation)
  IN
    IF out \in {"locked", "integrity"}
      THEN [st EXCEPT !.lock = "leaked", !.raised = TRUE]
    ELSE IF out = "wrote" /\ LogBusy(txn)
      THEN [st EXCEPT !.lock = "leaked", !.raised = TRUE]
    ELSE [st EXCEPT
            !.table = Written(st.table, d, operation),
            !.log = IF out = "wrote"
                      THEN Append(st.log, LoggedEntry(txn, st.next_id,
                                     CHOOSE t \in Stamps(st.log) :
                                       \A u \in Stamps(st.log) : t <= u))
                      ELSE st.log,
            !.next_id = IF out = "wrote" THEN st.next_id + 1 ELSE st.next_id]

\* The store when the process ends inside the call, after the call's
\* statement: what _log_sync_operation committed stays, the row change, not
\* yet committed, is lost with the connection
set_workplace_cache_killed(st, d, operation) ==
  LET out == WriteOutcome(st.lock, d, operation)
      txn == Txn(st.table, d, operation)
  IN
    IF out = "wrote" /\ ~LogBusy(txn)
      THEN [st EXCEPT
              !.log = Append(st.log, LoggedEntry(txn, st.next_id,
                                CHOOSE t \in Stamps(st.log) :
                                  \A u \in Stamps(st.log) : t <= u)),
              !.next_id = st.next_id + 1]
      ELSE st

Store == [table |-> workplace_cache, log |-> sync_log, next_id |-> next_id,
          lock |-> db_lock, raised |-> FALSE]

SetResult(raised) == [op |-> "set", raised |-> raised]

\* NPSCache.set_workplace_cache(d, operation), called directly
SetWorkplaceCache(d, operation) ==
  /\ Idle
  /\ LET st == set_workplace_cache(Store, d, operation) IN
       /\ workplace_cache' = st.table
       /\ sync_log' = st.log
       /\ next_id' = st.next_id
       /\ db_lock' = st.lock
       /\ last' = SetResult(st.raised)
  /\ UNCHANGED <<pgVars, drainVars>>
  /\ UNCHANGED apiVars
  /\ UNCHANGED concVars

\* The process ends inside set_workplace_cache(d, operation), and a new NPSSync
\* is constructed on the same database file
SetKilled(d, operation) ==
  /\ Idle
  /\ WriteOutcome(db_lock, d, operation) = "wrote"
  /\ LET st == set_workplace_cache_killed(Store, d, operation) IN
       /\ workplace_cache' = st.table
       /\ sync_log' = st.log
       /\ next_id' = st.next_id
  /\ supabase_connection' \in {"None", "conn"}
  /\ pg_status' = "ready"
  /\ db_lock' = "free"
  /\ last' = [op |-> "killed"]
  /\ UNCHANGED <<remote, drainVars>>
  /\ UNCHANGED apiVars
  /\ UNCHANGED concVars

\* The garbage collector finalises the unclosed connections: their
\* transactions are rolled back and the file lock is released
Gc ==
  /\ db_lock = "leaked"
  /\ db_lock' = "free"
  /\ UNCHANGED <<dbVars, pgVars, drainVars, last>>
  /\ UNCHANGED apiVars
  /\ UNCHANGED concVars

\* The process ends (at any point, also inside a call) and a new NPSSync is
\* constructed on the same database file: connect_supabase succeeds or not
Restart ==
  /\ supabase_connection' \in {"None", "conn"}
  /\ pg_status' = "ready"
  /\ db_lock' = "free"
  /\ drain_pc' = "idle"
  /\ pending_ops' = <<>>
  /\ drain_log' = <<>>
  /\ drain_sync_id' = Unbound
  /\ last' = [op |-> "init"]
  /\ UNCHANGED <<dbVars, remote>>
  /\ UNCHANGED apiVars
  /\ UNCHANGED concVars

\* --------------------------------------------------- NPSCache: record reads
\* WHERE wkpl_nm = ? [AND bzowr_rgst_no = ?]: the second condition only when
\* a registration number is given
Matching(table, wkpl_nm, bzowr_rgst_no) ==
  {r \in table : /\ r.wkpl_nm = wkpl_nm
                 /\ Truthy(bzowr_rgst_no) => r.bzowr_rgst_no = bzowr_rgst_no}

\* UPDATE ... SET access_count = access_count + 1 for every row found
Accessed(table, rows) ==
  {IF r \in rows THEN [r EXCEPT !.access_count = @ + 1] ELSE r : r \in table}

\* get_workplace_cache: the rows found (as read before the accounting update),
\* or "raised" when the accounting update cannot get the write lock
get_workplace_cache(table, lock, wkpl_nm, bzowr_rgst_no) ==
  LET results == Matching(table, wkpl_nm, bzowr_rgst_no) IN
    IF results # {} /\ lock = "leaked"
      THEN [raised |-> TRUE, rows |-> {}, table |-> table]
      ELSE [raised |-> FALSE, rows |-> results, table |-> Accessed(table, results)]

\* ----------------------------------------------------- NPSSync: read-through
\* if cached_data: (line 52)
CacheHit(cached_data) == cached_data # {}

\* What the remote does with a statement on a healthy connection:
\*   "ok"      it executes
\*   "client"  psycopg2 raises before anything reaches the server
\*   "server"  the server rejects it, or the connection is lost: the
\*             connection is unusable from then on
Verdicts == {"ok", "client", "server"}

\* _get_workplace_from_supabase: any exception is swallowed and [] returned
QueryFailed(pg, verdict) == pg = "failed" \/ verdict # "ok"

\* Variant: the failure of the query is not caught
get_workplace_from_supabase_m(pg, rows, verdict) ==
  IF QueryFailed(pg, verdict)
    THEN [raised |-> TRUE, rows |-> {}, answered |-> FALSE,
          pg |-> IF verdict = "server" THEN "failed" ELSE pg]
    ELSE [raised |-> FALSE, rows |-> rows, answered |-> TRUE, pg |-> pg]

get_workplace_from_supabase(pg, rows, verdict) ==
  IF QueryFailed(pg, verdict)
    THEN [raised |-> FALSE, rows |-> {}, answered |-> FALSE,
          pg |-> IF verdict = "server" THEN "failed" ELSE pg]
    ELSE [raised |-> FALSE, rows |-> rows, answered |-> TRUE, pg |-> pg]

\* for data in supabase_data: self.cache.set_workplace_cache(data, 'insert')
\* (the first call that raises ends the loop)
RECURSIVE StoreAll(_, _)
StoreAll(st, rows) ==
  IF rows = <<>> \/ st.raised THEN st
  ELSE StoreAll(set_workplace_cache(st, Head(rows), "insert"), Tail(rows))

\* The result of a get_workplace_data call: the rows the local store held for
\* the query, whether the call raised, the rows it returned, and what became
\* of the remote query
GetResult(local, raised, ret, asked) ==
  [op |-> "get", local |-> local, raised |-> raised, ret |-> ret, asked |-> asked]

\* get_workplace_data(wkpl_nm, bzowr_rgst_no). asked: what became of the
\* remote query: "no" (not made), "noconn", "failed" or "answered"
GetWorkplaceData(wkpl_nm, bzowr_rgst_no) ==
  /\ Idle
  /\ \A r \in Matching(workplace_cache, wkpl_nm, bzowr_rgst_no) :
       r.access_count < MaxAccess
  /\ LET local == Matching(workplace_cache, wkpl_nm, bzowr_rgst_no)
         cached == get_workplace_cache(workplace_cache, db_lock, wkpl_nm, bzowr_rgst_no)
         Result(raised, ret, asked) == GetResult(local, raised, ret, asked)
     IN
       IF cached.raised
         THEN /\ last' = Result(TRUE, {}, "no")
              /\ UNCHANGED <<dbVars, db_lock, pgVars>>
       ELSE IF CacheHit(cached.rows)
         THEN /\ workplace_cache' = cached.table
              /\ last' = Result(FALSE, cached.rows, "no")
              /\ UNCHANGED <<sync_log, next_id, db_lock, pgVars>>
       ELSE IF supabase_connection = "None"
         THEN /\ last' = Result(FALSE, {}, "noconn")
              /\ UNCHANGED <<dbVars, db_lock, pgVars>>
       ELSE \E verdict \in Verdicts :
              LET q == get_workplace_from_supabase(
                         pg_status, Matching(remote, wkpl_nm, bzowr_rgst_no), verdict)
              IN
                /\ pg_status' = q.pg
                /\ UNCHANGED <<supabase_connection, remote>>
                /\ IF q.raised
                     THEN /\ last' = Result(TRUE, {}, "failed")
                          /\ UNCHANGED <<dbVars, db_lock>>
                   ELSE IF q.rows = {}
                     THEN /\ last' = Result(FALSE, {},
                                            IF q.answered THEN "answered" ELSE "failed")
                          /\ UNCHANGED <<dbVars, db_lock>>
                   ELSE \E order \in Perms(q.rows) :
                          LET st == StoreAll([table |-> workplace_cache, log |-> sync_log,
                                              next_id |-> next_id, lock |-> db_lock,
                                              raised |-> FALSE], order)
                          IN
                            /\ workplace_cache' = st.table
                            /\ sync_log' = st.log
                            /\ next_id' = st.next_id
                            /\ db_lock' = st.lock
                            /\ last' = Result(st.raised,
                                              IF st.raised THEN {} ELSE q.rows, "answered")
  /\ UNCHANGED drainVars
  /\ UNCHANGED apiVars
  /\ UNCHANGED concVars

\* get_cache_stats of NPSSync: the counts of NPSCache plus the connection flag
GetCacheStats ==
  /\ Idle
  /\ last' = [op |-> "stats",
              workplace_cache_count |-> Cardinality(workplace_cache),
              pending_sync_count |->
                Cardinality({i \in 1..Len(sync_log) : sync_log[i].sync_status = "pending"}),
              supabase_connected |-> supabase_connection # "None"]
  /\ UNCHANGED <<dbVars, db_lock, pgVars, drainVars>>
  /\ UNCHANGED apiVars
  /\ UNCHANGED concVars

\* --------------------------------------------------------- NPSCache: ledger
Pending(log) == {i \in 1..Len(log) : log[i].sync_status = "pending"}

\* ORDER BY created_at ASC
ByCreatedAt(ops) ==
  \A i, j \in DOMAIN ops : i < j => ops[i].created_at <= ops[j].created_at

\* get_pending_sync_operations: the rows WHERE sync_status = 'pending', in the
\* orders ORDER BY created_at allows (it does not order rows of one second)
get_pending_sync_operations(log) ==
  {ops \in Perms({log[i] : i \in Pending(log)}) : ByCreatedAt(ops)}

\* The same UPDATE without its WHERE clause: every row is marked
MarkedLog_m(log, sync_id, success, error_message) ==
  [i \in DOMAIN log |->
     IF success
       THEN [log[i] EXCEPT !.sync_status = "synced", !.synced_at = "now"]
       ELSE [log[i] EXCEPT !.sync_status = "error", !.error_message = error_message]]

\* UPDATE sync_log ... WHERE id = ?
MarkedLog(log, sync_id, success, error_message) ==
  [i \in DOMAIN log |->
     IF log[i].id # sync_id THEN log[i]
     ELSE IF success
       THEN [log[i] EXCEPT !.sync_status = "synced", !.synced_at = "now"]
       ELSE [log[i] EXCEPT !.sync_status = "error", !.error_message = error_message]]

\* Variant: the row of a propagated entry is removed from the local table
MarkedTable_m(table, log, sync_id, success) ==
  IF success
    THEN {r \in table : ~\E i \in DOMAIN log : log[i].id = sync_id /\ log[i].record_id = r.seq}
    ELSE table

\* What mark_sync_completed does to workplace_cache: on success the row whose
\* seq is the entry's record_id becomes 'synced'; on failure nothing
MarkedTable(table, log, sync_id, success) ==
  IF success
    THEN {IF \E i \in DOMAIN log : log[i].id = sync_id /\ log[i].record_id = r.seq
            THEN [r EXCEPT !.sync_status = "synced"] ELSE r : r \in table}
    ELSE table

\* mark_sync_completed on the store st: its UPDATE needs the write lock
mark_sync_completed(st, sync_id, success, error_message) ==
  IF st.lock = "leaked"
    THEN [st EXCEPT !.raised = TRUE]
    ELSE [st EXCEPT !.log = MarkedLog(st.log, sync_id, success, error_message),
                    !.table = MarkedTable(st.table, st.log, sync_id, success)]

\* ------------------------------------------------- NPSSync: remote writes
\* INSERT ... ON CONFLICT (seq) DO UPDATE on the base table (wkpl_nm is
\* updated, bzowr_rgst_no only set on insert) and, when a detail value is
\* truthy, on the detail table
Upserted(rows, d) ==
  LET old == RowsOf(rows, Get(d, "seq"))
      base == IF old = {}
                THEN [seq |-> Get(d, "seq"), wkpl_nm |-> Get(d, "wkplNm"),
                      bzowr_rgst_no |-> Get(d, "bzowrRgstNo"), jnngp_cnt |-> NULL]
                ELSE [(CHOOSE r \in old : TRUE) EXCEPT !.wkpl_nm = Get(d, "wkplNm")]
      new == IF Truthy(Get(d, "jnngpCnt"))
               THEN [base EXCEPT !.jnngp_cnt = Get(d, "jnngpCnt")] ELSE base
  IN (rows \ old) \cup {new}

\* _sync_to_supabase on the connection db = [status, rows, error]: error is
\* the text of the exception it raises ("statement failed": this call's
\* statement was refused; "connection unusable": an earlier failure left the
\* connection so), NULL when it returns. Nothing is rolled back after a failure
sync_to_supabase(db, workplace_data, operation, verdict) ==
  IF db.status = "failed" THEN [db EXCEPT !.error = "connection unusable"]
  ELSE IF operation \notin MutOps THEN db
  ELSE IF verdict = "client" THEN [db EXCEPT !.error = "statement failed"]
  ELSE IF \/ verdict = "server"
          \/ operation \in {"insert", "update"} /\ ~NotNullOk(workplace_data)
    THEN [db EXCEPT !.error = "statement failed", !.status = "failed"]
  ELSE IF operation = "delete"
    THEN [db EXCEPT !.rows = db.rows \ RowsOf(db.rows, Get(workplace_data, "seq"))]
  ELSE [db EXCEPT !.rows = Upserted(db.rows, workplace_data)]

\* ------------------------------------------------------- NPSSync: the drain
DrainResult(raised, ran) == [op |-> "drain", raised |-> raised, ran |-> ran]

\* Variant: the loop is entered without looking at the connection
Proceeds_m(ops, connection) == ops # <<>>

\* The two early returns before the loop: `if not pending_ops` and
\* `if not self.supabase_connection`
Proceeds(ops, connection) == ops # <<>> /\ connection # "None"

\* sync_pending_operations, up to the loop
SyncPendingStart ==
  /\ Idle
  /\ \E ops \in get_pending_sync_operations(sync_log) :
       IF ~Proceeds(ops, supabase_connection)
         THEN /\ last' = DrainResult(FALSE, FALSE)
              /\ UNCHANGED drainVars
         ELSE /\ drain_pc' = "loop"
              /\ pending_ops' = ops
              /\ drain_log' = <<>>
              /\ drain_sync_id' = Unbound
              /\ last' = [op |-> "draining"]
  /\ UNCHANGED <<dbVars, db_lock, pgVars>>
  /\ UNCHANGED apiVars
  /\ UNCHANGED concVars

\* workplace_data of an entry: {'seq': record_id} for a delete, else the
\* decoded data_after ({} when it is NULL)
EntryData(op) ==
  IF op.operation = "delete" THEN [seq |-> op.record_id]
  ELSE IF op.data_after # {} THEN CHOOSE d \in op.data_after : TRUE
  ELSE <<>>

\* sync_id assigned only after the remote write of the entry: when that write
\* raises, the except block finds the value of the previous iteration
BoundId_m(prev, op, applied) ==
  IF applied.error = NULL THEN <<op.id>> ELSE prev

\* sync_id as the except block finds it: sync_id = op['id'] is the first
\* statement of the try block, nothing before it can raise
BoundId(prev, op, applied) == <<op.id>>

\* mark_sync_completed(sync_id, success=False, ...) of the except block:
\* reading an unassigned sync_id raises (NameError) before the call
MarkFailure(st, id, error_message) ==
  IF id = Unbound THEN [st EXCEPT !.raised = TRUE]
  ELSE mark_sync_completed(st, id[1], FALSE, error_message)

\* One iteration of the loop: the entry is applied to the remote and its
\* outcome recorded. When recording raises (in the try block, and then again
\* in the except block) the exception leaves sync_pending_operations
SyncPendingStep ==
  /\ drain_pc = "loop"
  /\ pending_ops # <<>>
  /\ UNCHANGED apiVars
  /\ UNCHANGED concVars
  /\ \E verdict \in Verdicts :
       LET op == Head(pending_ops)
           applied == sync_to_supabase([status |-> pg_status, rows |-> remote, error |-> NULL],
                                       EntryData(op), op.operation, verdict)
           tried == IF applied.error = NULL
                      THEN mark_sync_completed(Store, op.id, TRUE, NULL)
                      ELSE [Store EXCEPT !.raised = TRUE]
           bound == BoundId(drain_sync_id, op, applied)
           final == IF tried.raised
                      THEN MarkFailure(Store, bound,
                             IF applied.error = NULL THEN "database is locked"
                             ELSE applied.error)
                      ELSE tried
       IN
         /\ pg_status' = applied.status
         /\ remote' = applied.rows
         /\ UNCHANGED <<supabase_connection, next_id, db_lock>>
         /\ IF final.raised
              THEN /\ drain_pc' = "idle"
                   /\ pending_ops' = <<>>
                   /\ drain_log' = <<>>
                   /\ drain_sync_id' = Unbound
                   /\ last' = DrainResult(TRUE, TRUE)
                   /\ UNCHANGED <<workplace_cache, sync_log>>
              ELSE /\ workplace_cache' = final.table
                   /\ sync_log' = final.log
                   /\ pending_ops' = Tail(pending_ops)
                   /\ drain_log' = Append(drain_log,
                                     [id |-> op.id, verdict |-> verdict,
                                      error |-> applied.error])
                   /\ drain_sync_id' = bound
                   /\ UNCHANGED <<drain_pc, last>>

\* The loop is over
SyncPendingReturn ==
  /\ drain_pc = "loop"
  /\ pending_ops = <<>>
  /\ drain_pc' = "idle"
  /\ drain_log' = <<>>
  /\ drain_sync_id' = Unbound
  /\ last' = DrainResult(FALSE, TRUE)
  /\ UNCHANGED <<dbVars, db_lock, pgVars, pending_ops>>
  /\ UNCHANGED apiVars
  /\ UNCHANGED concVars

\* ------------------------------------------------------------------ Init
\* The database file NPSCache opens may already hold rows (init_database
\* creates the tables only IF NOT EXISTS): rows and ledger entries in the
\* writers' formats, nothing reconciled yet.
InitRow(s) == NewRow(WorkplaceData(s))

\* The mutations the ledger of such a file records, oldest first: an update
\* of T1, a delete of T2, then updates of T1 and T2 in turn
History(i) ==
  [operation |-> IF i = 2 THEN "delete" ELSE "update",
   record_id |-> IF i % 2 = 1 THEN "T1" ELSE "T2"]

\* The ledgers: the first n mutations of the history, n <= MaxLog, ids in
\* append order. created_at is the wall clock's second at the insert (counted
\* from the earliest): two entries may share a second, and an entry appended
\* after the clock was set back carries an earlier one.
InitLogs ==
  {log \in UNION {[1..n -> {LogEntry(i, History(i).operation, History(i).record_id, {},
                                      IF History(i).operation = "delete" THEN {}
                                      ELSE {WorkplaceData(History(i).record_id)}, t) :
                              i \in 1..n, t \in Times}]
                  : n \in 0..MaxLog} :
     /\ \A i \in DOMAIN log : log[i].id = i
     /\ log # <<>> => (\E i \in DOMAIN log : log[i].created_at = 0)}

Init ==
  /\ workplace_cache \in {{}, {InitRow(s) : s \in Seqs}}
  /\ sync_log \in InitLogs
  /\ next_id = Len(sync_log) + 1
  /\ db_lock = "free"
  /\ supabase_connection \in {"None", "conn"}
  /\ pg_status = "ready"
  /\ remote = {RemoteRow(s) : s \in Seqs}
  /\ drain_pc = "idle"
  /\ pending_ops = <<>>
  /\ drain_log = <<>>
  /\ drain_sync_id = Unbound
  /\ last = [op |-> "init"]
  /\ api_cache = {}
  /\ now = 0
  /\ tz = 0
  /\ NoConcurrency

Next ==
  \/ \E d \in Inputs, operation \in Ops : SetWorkplaceCache(d, operation)
  \/ \E d \in Inputs, operation \in MutOps : SetKilled(d, operation)
  \/ \E wkpl_nm \in Names, bzowr_rgst_no \in RegNos :
       GetWorkplaceData(wkpl_nm, bzowr_rgst_no)
  \/ GetCacheStats
  \/ SyncPendingStart
  \/ SyncPendingStep
  \/ SyncPendingReturn
  \/ Gc
  \/ Restart

Spec == Init /\ [][Next]_vars

\* ------------------------------------------------ NPSCache: request hashes
\* Parameter names, in the order Python compares them, and parameter values
ParamKeys == <<"numOfRows", "pageNo", "seq">>
ParamValues == {"1", "2"}
ApiTypes == {"detail_info", "monthly_status"}
MaxParams == 2

\* A params dict, as the sequence of its items in insertion order (keys
\* distinct)
ParamDicts ==
  {p \in UNION {[1..n -> {<<ParamKeys[i], v>> : i \in DOMAIN ParamKeys, v \in ParamValues}]
                : n \in 0..MaxParams} :
     \A i, j \in DOMAIN p : i # j => p[i][1] # p[j][1]}

\* The mapping a dict is: its key/value pairs without their order
Items(params) == {params[i] : i \in DOMAIN params}

KeyRank(k) == CHOOSE i \in DOMAIN ParamKeys : ParamKeys[i] = k

\* Variant: the items are serialised in insertion order
sorted_params_m(params) == params

\* sorted(params.items()): the items in ascending order of their keys
sorted_params(params) ==
  CHOOSE q \in Perms(Items(params)) :
    \A i, j \in DOMAIN q : i < j => KeyRank(q[i][1]) < KeyRank(q[j][1])

\* json.dumps of the list of items: the text, token by token
RECURSIVE dumps_items(_)
dumps_items(items) ==
  IF items = <<>> THEN <<>>
  ELSE <<"[", Head(items)[1], ", ", Head(items)[2], "]">>
       \o (IF Len(items) > 1 THEN <<", ">> ELSE <<>>) \o dumps_items(Tail(items))

dumps(items) == <<"[">> \o dumps_items(items) \o <<"]">>

\* generate_request_hash: SHA-256 of "api_type:json", the digest taken to be
\* one-to-one on these texts and so modelled by the text itself
generate_request_hash(api_type, params) ==
  <<api_type, ":">> \o dumps(sorted_params(params))

\* Two calls of generate_request_hash, on any two argument pairs
HashArgs(a1, p1, a2, p2) ==
  [op |-> "hash_args", api_type1 |-> a1, params1 |-> p1, api_type2 |-> a2, params2 |-> p2]

GenerateRequestHash ==
  /\ last.op = "hash_args"
  /\ last' = [op |-> "hash", api_type1 |-> last.api_type1, params1 |-> last.params1,
              api_type2 |-> last.api_type2, params2 |-> last.params2,
              hash1 |-> generate_request_hash(last.api_type1, last.params1),
              hash2 |-> generate_request_hash(last.api_type2, last.params2)]
  /\ UNCHANGED <<dbVars, db_lock, pgVars, drainVars, apiVars, concVars>>

InitHash ==
  /\ workplace_cache = {}
  /\ sync_log = <<>>
  /\ next_id = 1
  /\ db_lock = "free"
  /\ supabase_connection = "None"
  /\ pg_status = "ready"
  /\ remote = {}
  /\ drain_pc = "idle"
  /\ pending_ops = <<>>
  /\ drain_log = <<>>
  /\ drain_sync_id = Unbound
  /\ api_cache = {}
  /\ now = 0
  /\ tz = 0
  /\ NoConcurrency
  /\ last \in {HashArgs(a1, p1, a2, p2) : a1 \in ApiTypes, a2 \in ApiTypes,
                                          p1 \in ParamDicts, p2 \in ParamDicts}

NextHash == GenerateRequestHash

SpecHash == InitHash /\ [][NextHash]_vars

\* ----------------------------------------------------- NPSCache: api_cache
\* expires_hours of a put, the offsets of local time, and how far time runs
TtlHours == {0, 1}
TzOffsets == {0, 9}
MaxNow == 2

\* datetime.now(): the naive local time
LocalNow(t, offset) == t + offset

\* The (api_type, params) pairs the cache is called with: the first two are
\* the same request with its parameters in two orders
ApiCalls ==
  {<<"detail_info", <<<<"pageNo", "1">>, <<"seq", "1">>>>>>,
   <<"detail_info", <<<<"seq", "1">>, <<"pageNo", "1">>>>>>,
   <<"monthly_status", <<<<"seq", "1">>>>>>}
Responses == {"body1", "body2"}

\* expires_at TIMESTAMP is NULL (the empty sequence) or one time
NoExpiry == <<>>

\* The row INSERT OR REPLACE INTO api_cache writes
ApiRow(request_hash, response_data, expires_at) ==
  [request_hash |-> request_hash, response_data |-> response_data,
   expires_at |-> expires_at, access_count |-> 1]

\* Variant: an entry is served up to and including its expiry instant
Live_m(row, t) == row.expires_at = NoExpiry \/ row.expires_at[1] >= t

\* expires_at IS NULL OR expires_at > ?
Live(row, t) == row.expires_at = NoExpiry \/ row.expires_at[1] > t

\* The row get_api_cache selects (request_hash is UNIQUE)
Found(table, request_hash, t) ==
  {r \in table : r.request_hash = request_hash /\ Live(r, t)}

\* get_api_cache at local time t: None on a miss; on a hit the accounting
\* UPDATE needs the write lock, then the stored response is returned
get_api_cache(table, lock, request_hash, t) ==
  LET found == Found(table, request_hash, t) IN
    IF found = {} THEN [raised |-> FALSE, ret |-> NULL, table |-> table]
    ELSE IF lock = "leaked" THEN [raised |-> TRUE, ret |-> NULL, table |-> table]
    ELSE [raised |-> FALSE, ret |-> (CHOOSE r \in found : TRUE).response_data,
          table |-> {IF r.request_hash = request_hash
                       THEN [r EXCEPT !.access_count = @ + 1] ELSE r : r \in table}]

\* set_api_cache at local time t: INSERT OR REPLACE, expires_at = now + hours
set_api_cache(table, lock, request_hash, response_data, expires_hours, t) ==
  IF lock = "leaked" THEN [raised |-> TRUE, table |-> table]
  ELSE [raised |-> FALSE,
        table |-> {r \in table : r.request_hash # request_hash}
                    \cup {ApiRow(request_hash, response_data, <<t + expires_hours>>)}]

\* timedelta(days=30), in hours
RetentionDays == 30
Retention == RetentionDays * 24

\* DELETE FROM api_cache WHERE expires_at < ?
Expired(row, t) == row.expires_at # NoExpiry /\ row.expires_at[1] < t

\* DELETE FROM sync_log WHERE created_at < ? AND sync_status = 'synced':
\* created_at was written by CURRENT_TIMESTAMP (UTC), old_date is local time
Purged(entry, old_date) == entry.created_at < old_date /\ entry.sync_status = "synced"

\* cleanup_expired_cache at local time t on [api, log]
cleanup_expired_cache(api, log, lock, t) ==
  IF lock = "leaked" THEN [raised |-> TRUE, api |-> api, log |-> log]
  ELSE [raised |-> FALSE,
        api |-> {r \in api : ~Expired(r, t)},
        log |-> SelectSeq(log, LAMBDA e : ~Purged(e, t - Retention))]

SetApiCache(api_type, params, response_data, expires_hours) ==
  /\ Idle
  /\ LET request_hash == generate_request_hash(api_type, params)
         r == set_api_cache(api_cache, db_lock, request_hash, response_data,
                            expires_hours, LocalNow(now, tz))
     IN /\ api_cache' = r.table
        /\ last' = [op |-> "api_set", request_hash |-> request_hash,
                    expires_hours |-> expires_hours, raised |-> r.raised]
  /\ UNCHANGED <<dbVars, db_lock, pgVars, drainVars, now, tz, concVars>>

GetApiCache(api_type, params) ==
  /\ Idle
  /\ \A r \in api_cache : r.access_count < MaxAccess
  /\ LET request_hash == generate_request_hash(api_type, params)
         r == get_api_cache(api_cache, db_lock, request_hash, LocalNow(now, tz))
     IN /\ api_cache' = r.table
        /\ last' = [op |-> "api_get", request_hash |-> request_hash,
                    ret |-> r.ret, raised |-> r.raised]
  /\ UNCHANGED <<dbVars, db_lock, pgVars, drainVars, now, tz, concVars>>

CleanupExpiredCache ==
  /\ Idle
  /\ LET r == cleanup_expired_cache(api_cache, sync_log, db_lock, LocalNow(now, tz))
     IN /\ api_cache' = r.api
        /\ sync_log' = r.log
        /\ last' = [op |-> "cleanup", raised |-> r.raised,
                    log_deleted |-> {sync_log[i] : i \in DOMAIN sync_log}
                                      \ {r.log[i] : i \in DOMAIN r.log}]
  /\ UNCHANGED <<workplace_cache, next_id, db_lock, pgVars, drainVars, now, tz, concVars>>

\* An hour passes
Tick ==
  /\ now < MaxNow
  /\ now' = now + 1
  /\ UNCHANGED <<dbVars, db_lock, pgVars, drainVars, last, api_cache, tz, concVars>>

\* A process that uses the api cache on a database file with no records: the
\* file may hold an entry without expiry
InitApi ==
  /\ workplace_cache = {}
  /\ sync_log = <<>>
  /\ next_id = 1
  /\ db_lock = "free"
  /\ supabase_connection = "None"
  /\ pg_status = "ready"
  /\ remote = {}
  /\ drain_pc = "idle"
  /\ pending_ops = <<>>
  /\ drain_log = <<>>
  /\ drain_sync_id = Unbound
  /\ last = [op |-> "init"]
  /\ api_cache \in {{}, {ApiRow(generate_request_hash("monthly_status", <<<<"seq", "1">>>>),
                                "body1", NoExpiry)}}
  /\ now = 0
  /\ tz \in TzOffsets
  /\ NoConcurrency

NextApi ==
  \/ \E c \in ApiCalls, response_data \in Responses, expires_hours \in TtlHours :
       SetApiCache(c[1], c[2], response_data, expires_hours)
  \/ \E c \in ApiCalls : GetApiCache(c[1], c[2])
  \/ CleanupExpiredCache
  \/ Tick
  \/ \E d \in Inputs, operation \in MutOps : SetWorkplaceCache(d, operation)
  \/ Gc

SpecApi == InitApi /\ [][NextApi]_vars

\* ------------------------------------- NPSCache: ledger and record calls
\* mark_sync_completed(sync_id, success, error_message), called directly
MarkSyncCompleted(sync_id, success, error_message) ==
  /\ Idle
  /\ LET st == mark_sync_completed(Store, sync_id, success, error_message) IN
       /\ workplace_cache' = st.table
       /\ sync_log' = st.log
       /\ last' = [op |-> "mark", sync_id |-> sync_id, success |-> success,
                   raised |-> st.raised]
  /\ UNCHANGED <<next_id, db_lock, pgVars, drainVars, apiVars, concVars>>

\* get_workplace_cache(wkpl_nm, bzowr_rgst_no), called directly
GetWorkplaceCache(wkpl_nm, bzowr_rgst_no) ==
  /\ Idle
  /\ \A r \in workplace_cache : r.access_count < MaxAccess
  /\ LET r == get_workplace_cache(workplace_cache, db_lock, wkpl_nm, bzowr_rgst_no) IN
       /\ workplace_cache' = r.table
       /\ last' = [op |-> "find", raised |-> r.raised, rows |-> r.rows]
  /\ UNCHANGED <<sync_log, next_id, db_lock, pgVars, drainVars, apiVars, concVars>>

\* created_at of the ledger entries of an old database file, in hours before
\* the process starts: a little more and a little less than 30 days
Ages == {0 - (Retention + 10), 0 - (Retention - 5)}

\* A ledger entry of such a file: pending as written, or as mark_sync_completed
\* left it
AgedEntry(i, status, t) ==
  [LogEntry(i, History(i).operation, History(i).record_id, {},
            IF History(i).operation = "delete" THEN {}
            ELSE {WorkplaceData(History(i).record_id)}, t)
     EXCEPT !.sync_status = status,
            !.synced_at = IF status = "synced" THEN "now" ELSE NULL,
            !.error_message = IF status = "error" THEN "statement failed" ELSE NULL]

\* The ledgers of such a file: the first n mutations of the history; entries
\* not yet propagated are the old ones
AgedLogs ==
  {log \in UNION {[1..n -> UNION {{AgedEntry(i, "synced", t) : t \in Ages}
                                    \cup {AgedEntry(i, status, 0 - (Retention + 10)) :
                                            status \in {"pending", "error"}}
                                  : i \in 1..n}]
                  : n \in 0..MaxLog} :
     \A i \in DOMAIN log : log[i].id = i}

\* A process that calls NPSCache on an old database file, in a time zone
InitLedger ==
  /\ workplace_cache \in {{}, {InitRow(s) : s \in Seqs}}
  /\ sync_log \in AgedLogs
  /\ next_id = Len(sync_log) + 1
  /\ db_lock = "free"
  /\ supabase_connection = "None"
  /\ pg_status = "ready"
  /\ remote = {}
  /\ drain_pc = "idle"
  /\ pending_ops = <<>>
  /\ drain_log = <<>>
  /\ drain_sync_id = Unbound
  /\ last = [op |-> "init"]
  /\ api_cache = {}
  /\ now = 0
  /\ tz \in TzOffsets
  /\ NoConcurrency

NextLedger ==
  \/ \E sync_id \in 1..MaxLog, success \in BOOLEAN :
       MarkSyncCompleted(sync_id, success, "statement failed")
  \/ \E wkpl_nm \in Names, bzowr_rgst_no \in RegNos :
       GetWorkplaceCache(wkpl_nm, bzowr_rgst_no)
  \/ CleanupExpiredCache
  \/ \E d \in Inputs, operation \in MutOps : SetWorkplaceCache(d, operation)
  \/ Gc

SpecLedger == InitLedger /\ [][NextLedger]_vars

\* ------------------------------------------------ NPSSync: saving a record
\* The result of a save_workplace_data call: the seq of the record it was
\* given, whether it raised, and what became of the remote write: "no" (not
\* reached), "noconn", "failed" or "written"
SaveResult(seq, raised, wrote) ==
  [op |-> "save", seq |-> seq, raised |-> raised, wrote |-> wrote]

\* save_workplace_data(workplace_data, operation): set_workplace_cache, outside
\* any try, then _sync_to_supabase whose exception is caught
SaveWorkplaceData(workplace_data, operation) ==
  /\ Idle
  /\ LET st == set_workplace_cache(Store, workplace_data, operation) IN
       /\ workplace_cache' = st.table
       /\ sync_log' = st.log
       /\ next_id' = st.next_id
       /\ db_lock' = st.lock
       /\ IF st.raised
            THEN /\ last' = SaveResult(Get(workplace_data, "seq"), TRUE, "no")
                 /\ UNCHANGED pgVars
          ELSE IF supabase_connection = "None"
            THEN /\ last' = SaveResult(Get(workplace_data, "seq"), FALSE, "noconn")
                 /\ UNCHANGED pgVars
          ELSE \E verdict \in Verdicts :
                 LET applied == sync_to_supabase([status |-> pg_status, rows |-> remote,
                                                  error |-> NULL],
                                                 workplace_data, operation, verdict)
                 IN /\ pg_status' = applied.status
                    /\ remote' = applied.rows
                    /\ last' = SaveResult(Get(workplace_data, "seq"), FALSE,
                                          IF applied.error = NULL THEN "written"
                                          ELSE "failed")
                    /\ UNCHANGED supabase_connection
  /\ UNCHANGED <<drainVars, apiVars, concVars>>

\* The records of a database file whose ledger holds the first n mutations of
\* the history: those whose last mutation is not a delete
HistoryTable(n) ==
  {InitRow(s) : s \in {x \in Seqs :
     \E i \in 1..n : /\ History(i).record_id = x
                      /\ History(i).operation # "delete"
                      /\ \A j \in (i + 1)..n : History(j).record_id # x}}

\* That ledger, every entry pending, one entry per second
HistoryLog(n) ==
  [i \in 1..n |->
     LogEntry(i, History(i).operation, History(i).record_id, {},
              IF History(i).operation = "delete" THEN {}
              ELSE {WorkplaceData(History(i).record_id)}, i)]

\* The remote rows: as the local records, or registered before the
\* registration number was known
RemoteRows ==
  {{RemoteRow(s) : s \in Seqs},
   {[RemoteRow(s) EXCEPT !.bzowr_rgst_no = NULL] : s \in Seqs}}

\* A process that saves records and drains the ledger: the file holds the
\* records and the pending ledger of some mutations not yet propagated
InitSave ==
  /\ \E n \in 0..MaxLog : /\ workplace_cache = HistoryTable(n)
                           /\ sync_log = HistoryLog(n)
  /\ next_id = Len(sync_log) + 1
  /\ db_lock = "free"
  /\ supabase_connection \in {"None", "conn"}
  /\ pg_status = "ready"
  /\ remote \in RemoteRows
  /\ drain_pc = "idle"
  /\ pending_ops = <<>>
  /\ drain_log = <<>>
  /\ drain_sync_id = Unbound
  /\ last = [op |-> "init"]
  /\ api_cache = {}
  /\ now = 0
  /\ tz = 0
  /\ NoConcurrency

NextSave ==
  \/ \E d \in Inputs, operation \in Ops : SaveWorkplaceData(d, operation)
  \/ SyncPendingStart
  \/ SyncPendingStep
  \/ SyncPendingReturn
  \/ Gc

SpecSave == InitSave /\ [][NextSave]_vars

\* ------------------------------------------- NPSSync: a second drain process
\* A database file whose ledger holds n updates of the one record T1, none
\* propagated yet
InitSameSeq ==
  /\ workplace_cache = {InitRow("T1")}
  /\ \E n \in 1..MaxLog :
       sync_log = [i \in 1..n |->
                    LogEntry(i, "update", "T1", {}, {WorkplaceData("T1")}, i)]
  /\ next_id = Len(sync_log) + 1
  /\ db_lock = "free"
  /\ supabase_connection \in {"None", "conn"}
  /\ pg_status = "ready"
  /\ remote \in RemoteRows
  /\ drain_pc = "idle"
  /\ pending_ops = <<>>
  /\ drain_log = <<>>
  /\ drain_sync_id = Unbound
  /\ last = [op |-> "init"]
  /\ api_cache = {}
  /\ now = 0
  /\ tz = 0
  /\ NoConcurrency

SpecSameSeq == InitSameSeq /\ [][NextSave]_vars

\* Another process (cache_manager.py sync, nps_sync.py, the end of
\* nps_workers.py) runs sync_pending_operations on the same database file and
\* the same remote, with its own NPSSync and its own connection. drain2 is its
\* position (pc), the entries it has still to process (ops), the ids it has
\* processed (done) and the state of its connection (status).
\* sync_pending_operations of that process, up to the loop
Sync2Start ==
  /\ drain2.pc = "idle"
  /\ \E ops \in get_pending_sync_operations(sync_log) :
       /\ ops # <<>>
       /\ drain2' = [drain2 EXCEPT !.pc = "loop", !.ops = ops, !.done = {},
                                   !.sync_id = Unbound]
  /\ UNCHANGED <<dbVars, db_lock, pgVars, drainVars, last, apiVars, cache_lock, calls>>

\* One iteration of its loop
Sync2Step ==
  /\ drain2.pc = "loop"
  /\ drain2.ops # <<>>
  /\ \E verdict \in Verdicts :
       LET op == Head(drain2.ops)
           applied == sync_to_supabase([status |-> drain2.status, rows |-> remote,
                                        error |-> NULL],
                                       EntryData(op), op.operation, verdict)
           tried == IF applied.error = NULL
                      THEN mark_sync_completed(Store, op.id, TRUE, NULL)
                      ELSE [Store EXCEPT !.raised = TRUE]
           bound == BoundId(drain2.sync_id, op, applied)
           final == IF tried.raised
                      THEN MarkFailure(Store, bound,
                             IF applied.error = NULL THEN "database is locked"
                             ELSE applied.error)
                      ELSE tried
       IN
         /\ remote' = applied.rows
         /\ IF final.raised
              THEN /\ drain2' = [drain2 EXCEPT !.pc = "idle", !.ops = <<>>,
                                               !.status = applied.status,
                                               !.sync_id = Unbound]
                   /\ UNCHANGED <<workplace_cache, sync_log>>
              ELSE /\ workplace_cache' = final.table
                   /\ sync_log' = final.log
                   /\ drain2' = [drain2 EXCEPT !.ops = Tail(drain2.ops),
                                               !.done = drain2.done \cup {op.id},
                                               !.status = applied.status,
                                               !.sync_id = bound]
  /\ UNCHANGED <<next_id, db_lock, supabase_connection, pg_status, drainVars, last,
                 apiVars, cache_lock, calls>>

\* Its loop is over and the process ends
Sync2Return ==
  /\ drain2.pc = "loop"
  /\ drain2.ops = <<>>
  /\ drain2' = [drain2 EXCEPT !.pc = "idle", !.status = "ready", !.sync_id = Unbound]
  /\ UNCHANGED <<dbVars, db_lock, pgVars, drainVars, last, apiVars, cache_lock, calls>>

\* Two processes that drain the pending ledger of one database file
InitTwo ==
  /\ \E n \in 1..MaxLog : /\ workplace_cache = HistoryTable(n)
                           /\ sync_log = HistoryLog(n)
  /\ next_id = Len(sync_log) + 1
  /\ db_lock = "free"
  /\ supabase_connection = "conn"
  /\ pg_status = "ready"
  /\ remote \in RemoteRows
  /\ drain_pc = "idle"
  /\ pending_ops = <<>>
  /\ drain_log = <<>>
  /\ drain_sync_id = Unbound
  /\ last = [op |-> "init"]
  /\ api_cache = {}
  /\ now = 0
  /\ tz = 0
  /\ NoConcurrency

NextTwo ==
  \/ SyncPendingStart
  \/ SyncPendingStep
  \/ SyncPendingReturn
  \/ Sync2Start
  \/ Sync2Step
  \/ Sync2Return

SpecTwo == InitTwo /\ [][NextTwo]_vars

\* Two successive contents of record T1: the name changed from the first to
\* the second
Version(i) == [WorkplaceData("T1") EXCEPT !.wkplNm = IF i = 1 THEN "Acme" ELSE "Bolt"]

\* A database file that holds T1 in its second content and a ledger with the
\* two updates that led to it, both pending (written within one second or
\* not); the remote does not hold the record yet
InitVersions ==
  /\ workplace_cache = {NewRow(Version(2))}
  /\ \E t1, t2 \in Times :
       /\ t1 <= t2
       /\ sync_log = <<LogEntry(1, "update", "T1", {}, {Version(1)}, t1),
                       LogEntry(2, "update", "T1", {Version(1)}, {Version(2)}, t2)>>
  /\ next_id = 3
  /\ db_lock = "free"
  /\ supabase_connection = "conn"
  /\ pg_status = "ready"
  /\ remote = {}
  /\ drain_pc = "idle"
  /\ pending_ops = <<>>
  /\ drain_log = <<>>
  /\ drain_sync_id = Unbound
  /\ last = [op |-> "init"]
  /\ api_cache = {}
  /\ now = 0
  /\ tz = 0
  /\ NoConcurrency

SpecVersions == InitVersions /\ [][NextTwo]_vars

\* One process that calls sync_pending_operations again and again, with the
\* connection established
NextDrain ==
  \/ SyncPendingStart
  \/ SyncPendingStep
  \/ SyncPendingReturn

\* An iteration of the loop whose remote write succeeds
AppliedStep ==
  /\ SyncPendingStep
  /\ drain_log' # <<>>
  /\ drain_log'[Len(drain_log')].error = NULL

\* The database file holds a ledger with pending entries, the connection is
\* established
InitLive ==
  /\ workplace_cache \in {{}, {InitRow(s) : s \in Seqs}}
  /\ sync_log \in InitLogs \ {<<>>}
  /\ next_id = Len(sync_log) + 1
  /\ db_lock = "free"
  /\ supabase_connection = "conn"
  /\ pg_status = "ready"
  /\ remote \in RemoteRows
  /\ drain_pc = "idle"
  /\ pending_ops = <<>>
  /\ drain_log = <<>>
  /\ drain_sync_id = Unbound
  /\ last = [op |-> "init"]
  /\ api_cache = {}
  /\ now = 0
  /\ tz = 0
  /\ NoConcurrency

\* The calls keep being made, each runs to its end, and a remote write that
\* can succeed again and again does succeed
SpecLive ==
  /\ InitLive
  /\ [][NextDrain]_vars
  /\ WF_vars(SyncPendingStart)
  /\ WF_vars(SyncPendingStep)
  /\ WF_vars(SyncPendingReturn)
  /\ SF_vars(AppliedStep)

\* ------------------------------------- NPSCache: callers of one object
\* The methods the callers (threads) call, each on the same arguments:
\* get_api_cache('detail_info', {'seq': '1'}), get_workplace_cache('Acme') and
\* set_workplace_cache({'seq': 'T2', ...}), which raises
Methods == {"get_api_cache", "get_workplace_cache", "set_workplace_cache"}

\* Hits a caller is returned, per method
MaxHits == 1

\* The request the callers look up
TheHash == generate_request_hash("detail_info", <<<<"seq", "1">>>>)

\* A caller calls a method and reaches `with self.lock:`
Call(c, method) ==
  /\ calls[c].pc = "idle"
  /\ method = "get_api_cache" => calls[c].api_hits < MaxHits
  /\ method = "get_workplace_cache" => calls[c].record_hits < MaxHits
  /\ calls' = [calls EXCEPT ![c].pc = "waiting", ![c].method = method]
  /\ UNCHANGED <<dbVars, db_lock, pgVars, drainVars, last, apiVars, drain2, cache_lock>>

\* with self.lock: the lock is acquired when it is free
Enter(c) ==
  /\ calls[c].pc = "waiting"
  /\ cache_lock[calls[c].cache] = "free"
  /\ cache_lock' = [cache_lock EXCEPT ![calls[c].cache] = c]
  /\ calls' = [calls EXCEPT ![c].pc = "inside"]
  /\ UNCHANGED <<dbVars, db_lock, pgVars, drainVars, last, apiVars, drain2>>

\* Variant: the lock is released only when the body returns
Released_m(c, raised) == IF raised THEN c ELSE "free"

\* Leaving the with block, by return or by exception, releases the lock
Released(c, raised) == "free"

\* The body of the method runs and the with block is left
Exit(c) ==
  /\ calls[c].pc = "inside"
  /\ LET api == IF calls[c].method = "get_api_cache"
                  THEN get_api_cache(api_cache, db_lock, TheHash, LocalNow(now, tz))
                  ELSE [raised |-> FALSE, ret |-> NULL, table |-> api_cache]
         rec == IF calls[c].method = "get_workplace_cache"
                  THEN get_workplace_cache(workplace_cache, db_lock, "Acme", NULL)
                  ELSE [raised |-> FALSE, rows |-> {}, table |-> workplace_cache]
         st == IF calls[c].method = "set_workplace_cache"
                 THEN set_workplace_cache([Store EXCEPT !.table = rec.table],
                                          WorkplaceData("T2"), "insert")
                 ELSE [Store EXCEPT !.table = rec.table]
         raised == api.raised \/ rec.raised \/ st.raised
     IN /\ api_cache' = api.table
        /\ workplace_cache' = st.table
        /\ sync_log' = st.log
        /\ next_id' = st.next_id
        /\ db_lock' = st.lock
        /\ cache_lock' = [cache_lock EXCEPT ![calls[c].cache] = Released(c, raised)]
        /\ calls' = [calls EXCEPT
                       ![c].pc = "idle",
                       ![c].api_hits = IF api.ret # NULL THEN @ + 1 ELSE @,
                       ![c].record_hits = IF rec.rows # {} THEN @ + 1 ELSE @]
        /\ last' = [op |-> "call", method |-> calls[c].method, raised |-> raised]
  /\ UNCHANGED <<pgVars, drainVars, now, tz, drain2>>

\* Threads of one process that share one NPSCache, whose file holds one
\* record and one cache entry that does not expire
InitCalls ==
  /\ workplace_cache = {InitRow("T1")}
  /\ sync_log = <<>>
  /\ next_id = 1
  /\ db_lock = "free"
  /\ supabase_connection = "None"
  /\ pg_status = "ready"
  /\ remote = {}
  /\ drain_pc = "idle"
  /\ pending_ops = <<>>
  /\ drain_log = <<>>
  /\ drain_sync_id = Unbound
  /\ last = [op |-> "init"]
  /\ api_cache = {ApiRow(TheHash, "body1", NoExpiry)}
  /\ now = 0
  /\ tz \in TzOffsets
  /\ NoConcurrency

NextCalls ==
  \/ \E c \in Callers, method \in Methods : Call(c, method)
  \/ \E c \in Callers : Enter(c)
  \/ \E c \in Callers : Exit(c)
  \/ Gc

SpecCalls == InitCalls /\ [][NextCalls]_vars

\* The same, with the second caller on an NPSCache of its own on the same
\* database file (cache_manager.py constructs one next to NPSSync's)
InitObjects ==
  /\ workplace_cache = {InitRow("T1")}
  /\ sync_log = <<>>
  /\ next_id = 1
  /\ db_lock = "free"
  /\ supabase_connection = "None"
  /\ pg_status = "ready"
  /\ remote = {}
  /\ drain_pc = "idle"
  /\ pending_ops = <<>>
  /\ drain_log = <<>>
  /\ drain_sync_id = Unbound
  /\ last = [op |-> "init"]
  /\ api_cache = {ApiRow(TheHash, "body1", NoExpiry)}
  /\ now = 0
  /\ tz \in TzOffsets
  /\ drain2 = [pc |-> "idle", ops |-> <<>>, done |-> {}, status |-> "ready",
               sync_id |-> Unbound]
  /\ cache_lock = [o \in Caches |-> "free"]
  /\ calls = [c \in Callers |->
                IF c = "c1" THEN NoCall ELSE [NoCall EXCEPT !.cache = "NPSCache()"]]

SpecObjects == InitObjects /\ [][NextCalls]_vars

\* --------------------------------------- nps_workers: salary derivation
\* The numbers of the detail_info the API returns: a field is missing (None,
\* the empty sequence) or holds one number
MaxCount == 5
MaxAmount == 7
None == <<>>
Counts == {None} \cup {<<n>> : n \in 0..MaxCount}
Amounts == {None} \cup {<<n>> : n \in 0..MaxAmount}

\* Python truthiness of such a field: None and 0 are false
TruthyNumber(v) == v # None /\ v[1] # 0

\* + 200000 and / 0.09 (9 hundredths)
Allowance == 200000
RateHundredths == 9

\* avg_monthly_salary as main computes it from jnngpCnt and crrmmNtcAmt: None,
\* or int(crrmm_ntc_amt) / 0.09 / int(jnngp_cnt) + 200000 as the exact
\* fraction <<numerator, denominator>>
avg_monthly_salary(jnngp_cnt, crrmm_ntc_amt) ==
  IF TruthyNumber(jnngp_cnt) /\ jnngp_cnt[1] > 0 /\ TruthyNumber(crrmm_ntc_amt)
    THEN <<crrmm_ntc_amt[1] * 100 + Allowance * RateHundredths * jnngp_cnt[1],
           RateHundredths * jnngp_cnt[1]>>
    ELSE None

SalaryArgs(jnngp_cnt, crrmm_ntc_amt) ==
  [op |-> "salary_args", jnngp_cnt |-> jnngp_cnt, crrmm_ntc_amt |-> crrmm_ntc_amt]

\* The derivation applied to one detail_info
AvgMonthlySalary ==
  /\ last.op = "salary_args"
  /\ last' = [op |-> "salary", jnngp_cnt |-> last.jnngp_cnt,
              crrmm_ntc_amt |-> last.crrmm_ntc_amt,
              avg_monthly_salary |-> avg_monthly_salary(last.jnngp_cnt, last.crrmm_ntc_amt)]
  /\ UNCHANGED <<dbVars, db_lock, pgVars, drainVars, apiVars, concVars>>

InitSalary ==
  /\ workplace_cache = {}
  /\ sync_log = <<>>
  /\ next_id = 1
  /\ db_lock = "free"
  /\ supabase_connection = "None"
  /\ pg_status = "ready"
  /\ remote = {}
  /\ drain_pc = "idle"
  /\ pending_ops = <<>>
  /\ drain_log = <<>>
  /\ drain_sync_id = Unbound
  /\ api_cache = {}
  /\ now = 0
  /\ tz = 0
  /\ NoConcurrency
  /\ last \in {SalaryArgs(n, a) : n \in Counts, a \in Amounts}

NextSalary == AvgMonthlySalary

SpecSalary == InitSalary /\ [][NextSalary]_vars

\* ---------------------------------------------- NPSCache: ledger appends
\* Variant: id INTEGER PRIMARY KEY without AUTOINCREMENT, one more than the
\* largest id stored
AutoIncrement_m(log, counter) ==
  IF log = <<>> THEN 1
  ELSE 1 + (CHOOSE m \in {log[i].id : i \in DOMAIN log} :
              \A i \in DOMAIN log : log[i].id <= m)

\* id INTEGER PRIMARY KEY AUTOINCREMENT: one more than the largest id the
\* table ever held (sqlite_sequence), kept in next_id
AutoIncrement(log, counter) == counter

\* _log_sync_operation(table_name, operation, record_id, None, None), called
\* with no transaction open: INSERT INTO sync_log and commit
LogSyncOperation(operation, record_id) ==
  /\ Idle
  /\ Len(sync_log) < MaxLog
  /\ next_id <= MaxLog + 1
  /\ IF db_lock = "leaked"
       THEN /\ last' = [op |-> "log", raised |-> TRUE]
            /\ UNCHANGED <<sync_log, next_id>>
       ELSE /\ sync_log' = Append(sync_log,
                              LogEntry(AutoIncrement(sync_log, next_id), operation,
                                       record_id, {}, {}, now))
            /\ next_id' = next_id + 1
            /\ last' = [op |-> "log", raised |-> FALSE]
  /\ UNCHANGED <<workplace_cache, db_lock, pgVars, drainVars, apiVars, concVars>>

\* A process that appends to, marks and purges the ledger of an old file
InitAppend ==
  /\ workplace_cache = {}
  /\ sync_log \in AgedLogs
  /\ next_id = Len(sync_log) + 1
  /\ db_lock = "free"
  /\ supabase_connection = "None"
  /\ pg_status = "ready"
  /\ remote = {}
  /\ drain_pc = "idle"
  /\ pending_ops = <<>>
  /\ drain_log = <<>>
  /\ drain_sync_id = Unbound
  /\ last = [op |-> "init"]
  /\ api_cache = {}
  /\ now = 0
  /\ tz = 0
  /\ NoConcurrency

NextAppend ==
  \/ \E operation \in {"update", "delete"} : LogSyncOperation(operation, "T1")
  \/ \E sync_id \in 1..(MaxLog + 1), success \in BOOLEAN :
       MarkSyncCompleted(sync_id, success, "statement failed")
  \/ CleanupExpiredCache
  \/ SetWorkplaceCache(WorkplaceData("T1"), "insert")
  \/ Gc

SpecAppend == InitAppend /\ [][NextAppend]_vars

\* ------------------------------------- NPSSync: api calls through the cache
\* What api_function returns: a body, an empty dict, or None
ApiResults == {"body1", "body2", "{}", NULL}

\* `if cached_data:` and `if api_data:`: None and the empty dict are falsy
NonEmpty(body) == body \notin {NULL, "{}"}

\* get_api_data_with_cache: api_data is what api_function returns if called
GetApiDataWithCache(api_type, params, api_data, expires_hours) ==
  /\ Idle
  /\ \A r \in api_cache : r.access_count < MaxAccess
  /\ LET request_hash == generate_request_hash(api_type, params)
         t == LocalNow(now, tz)
         cached == get_api_cache(api_cache, db_lock, request_hash, t)
         stored == set_api_cache(cached.table, db_lock, request_hash, api_data,
                                 expires_hours, t)
         result(table, ret, raised, called) ==
           /\ api_cache' = table
           /\ last' = [op |-> "api_through", request_hash |-> request_hash, ret |-> ret,
                       raised |-> raised, called |-> called]
     IN IF cached.raised THEN result(api_cache, NULL, TRUE, 0)
        ELSE IF NonEmpty(cached.ret) THEN result(cached.table, cached.ret, FALSE, 0)
        ELSE IF ~NonEmpty(api_data) THEN result(cached.table, NULL, FALSE, 1)
        ELSE IF stored.raised THEN result(cached.table, NULL, TRUE, 1)
        ELSE result(stored.table, api_data, FALSE, 1)
  /\ UNCHANGED <<dbVars, db_lock, pgVars, drainVars, now, tz, concVars>>

\* A process that fetches through the api cache, saves records and lets time
\* pass
NextThrough ==
  \/ \E c \in ApiCalls, api_data \in ApiResults, expires_hours \in TtlHours :
       GetApiDataWithCache(c[1], c[2], api_data, expires_hours)
  \/ CleanupExpiredCache
  \/ Tick
  \/ SetWorkplaceCache(WorkplaceData("T1"), "insert")
  \/ Gc

SpecThrough == InitApi /\ [][NextThrough]_vars

\* ================================================================ properties
\* The entry with the given id
EntryOf(log, id) == log[CHOOSE i \in DOMAIN log : log[i].id = id]

\* The record content of the table: what a mutation writes, without the
\* bookkeeping columns
Content(table) ==
  {[seq |-> r.seq, wkpl_nm |-> r.wkpl_nm, bzowr_rgst_no |-> r.bzowr_rgst_no,
    jnngp_cnt |-> r.jnngp_cnt] : r \in table}

\* C1 (ledger completeness): every call of set_workplace_cache with operation
\* insert, update or delete on a complete record returns normally and appends
\* exactly one ledger entry, pending, that carries the operation, the record
\* id, the row as it was before and the data written.
C1_LedgerCompleteness ==
  [][\A d \in Inputs, operation \in MutOps :
       (NotNullOk(d) /\ SetWorkplaceCache(d, operation)) =>
          /\ ~last'.raised
          /\ Len(sync_log') = Len(sync_log) + 1
          /\ SubSeq(sync_log', 1, Len(sync_log)) = sync_log
          /\ LET e == sync_log'[Len(sync_log')] IN
               /\ e.operation = operation
               /\ e.record_id = d.seq
               /\ e.data_before = RowsOf(workplace_cache, d.seq)
               /\ e.data_after = (IF operation = "delete" THEN {} ELSE {d})
               /\ e.sync_status = "pending"]_vars

\* C1: a mutating call on a complete record has just failed, leaving the
\* ledger without an entry for it
C1_Witness == last.op = "set" /\ last.raised

\* C2 (atomicity of mutation and ledger append): over every step, also one
\* that ends a call by an exception or ends the process inside a call, either
\* neither the record content nor the ledger changes, or one entry is appended
\* and the table is the one the entry's mutation gives: never one of the two
\* alone.
C2_MutationAtomic ==
  [][\/ /\ Len(sync_log') = Len(sync_log)
        /\ Content(workplace_cache') = Content(workplace_cache)
     \/ /\ Len(sync_log') = Len(sync_log) + 1
        /\ LET e == sync_log'[Len(sync_log')] IN
             \E d \in Inputs :
               /\ e.record_id = Get(d, "seq")
               /\ e.operation \in MutOps
               /\ workplace_cache' = Written(workplace_cache, d, e.operation)]_vars

\* C2: the process has ended inside a mutating call, after the call's
\* statement on the record, and the store was opened again
C2_Witness == last.op = "killed"

\* C3 (drain isolation): when a drain could not apply an entry E1 and the
\* remote would execute a later entry E2 of the same drain, E1 is marked error
\* with the failure's text, E2 is marked synced and so is E2's record.
C3_DrainIsolation ==
  \A i, j \in DOMAIN drain_log :
    (i < j /\ drain_log[i].error # NULL /\ drain_log[j].verdict = "ok") =>
       LET e1 == EntryOf(sync_log, drain_log[i].id)
           e2 == EntryOf(sync_log, drain_log[j].id)
       IN /\ e1.sync_status = "error"
          /\ e1.error_message = drain_log[i].error
          /\ e2.sync_status = "synced"
          /\ \A r \in RowsOf(workplace_cache, e2.record_id) : r.sync_status = "synced"

\* C3: a drain has processed two entries, the first failed and the remote
\* was given the second with nothing wrong on its side
C3_Witness ==
  /\ Len(drain_log) = 2
  /\ drain_log[1].error # NULL
  /\ drain_log[2].verdict = "ok"

\* C4 (append order): the entries a drain processes are in the order they
\* were appended (increasing id), also those of one timestamp tick.
C4_AppendOrder ==
  \A i, j \in DOMAIN pending_ops : i < j => pending_ops[i].id < pending_ops[j].id

\* C4: a drain is running over two entries of the same tick
C4_Witness ==
  /\ drain_pc = "loop"
  /\ Len(pending_ops) = 2
  /\ pending_ops[1].created_at = pending_ops[2].created_at

\* C5 (retry of failed entries): a drain started with a connection takes up
\* every entry whose status is error.
C5_ErrorRetried ==
  [][(SyncPendingStart /\ supabase_connection = "conn") =>
       \A i \in DOMAIN sync_log :
         sync_log[i].sync_status = "error" =>
           \E k \in DOMAIN pending_ops' : pending_ops'[k].id = sync_log[i].id]_vars

\* C5: the ledger holds an entry in error and a drain can start
C5_Witness ==
  /\ Idle
  /\ supabase_connection = "conn"
  /\ pg_status = "ready"
  /\ \E i \in DOMAIN sync_log : sync_log[i].sync_status = "error"

\* C6 (record status after a failed propagation): when a drain has just failed
\* to apply an entry, the record the entry is about, if the store holds it, has
\* sync_status error.
C6_RecordMarkedError ==
  (drain_log # <<>> /\ drain_log[Len(drain_log)].error # NULL) =>
     \A r \in RowsOf(workplace_cache,
                      EntryOf(sync_log, drain_log[Len(drain_log)].id).record_id) :
       r.sync_status = "error"

\* C6: a drain has just failed to apply an entry whose record the store holds
C6_Witness ==
  /\ drain_log # <<>>
  /\ drain_log[Len(drain_log)].error # NULL
  /\ RowsOf(workplace_cache,
            EntryOf(sync_log, drain_log[Len(drain_log)].id).record_id) # {}

\* C7 (read-through hit): a get_workplace_data call whose query matches rows
\* of the local store returns those rows, makes no remote query and leaves
\* the ledger as it is.
C7_ReadThroughHit ==
  [][\A wkpl_nm \in Names, bzowr_rgst_no \in RegNos :
       (/\ Matching(workplace_cache, wkpl_nm, bzowr_rgst_no) # {}
        /\ GetWorkplaceData(wkpl_nm, bzowr_rgst_no)) =>
          /\ ~last'.raised
          /\ last'.ret = Matching(workplace_cache, wkpl_nm, bzowr_rgst_no)
          /\ last'.asked = "no"
          /\ sync_log' = sync_log]_vars

\* C7: a call found rows in the local store and returned them
C7_Witness ==
  /\ last.op = "get"
  /\ last.local # {}
  /\ last.ret = last.local

\* C8 (read-through miss, remote has rows): a get_workplace_data call whose
\* query matches no local row and for which the remote returns rows stores
\* each of them (one pending insert entry per row), returns them, and the
\* same query is a local hit afterwards.
C8_ReadThroughMiss ==
  [][\A wkpl_nm \in Names, bzowr_rgst_no \in RegNos :
       (/\ Matching(workplace_cache, wkpl_nm, bzowr_rgst_no) = {}
        /\ Matching(remote, wkpl_nm, bzowr_rgst_no) # {}
        /\ GetWorkplaceData(wkpl_nm, bzowr_rgst_no)
        /\ last'.asked = "answered") =>
          LET rows == Matching(remote, wkpl_nm, bzowr_rgst_no) IN
            /\ ~last'.raised
            /\ last'.ret = rows
            /\ \A r \in rows : RowsOf(workplace_cache', r.seq) # {}
            /\ Len(sync_log') = Len(sync_log) + Cardinality(rows)
            /\ \A i \in (Len(sync_log) + 1)..Len(sync_log') :
                 sync_log'[i].operation = "insert" /\ sync_log'[i].sync_status = "pending"
            /\ Matching(workplace_cache', wkpl_nm, bzowr_rgst_no) # {}]_vars

\* C8: a call missed locally and the remote answered it
C8_Witness ==
  /\ last.op = "get"
  /\ last.local = {}
  /\ last.asked = "answered"
  /\ remote # {}

\* C9 (degraded mode): a get_workplace_data call whose query matches no local
\* row and whose remote query cannot be made (no connection) or fails returns
\* the empty result without raising and leaves records and ledger unchanged.
C9_DegradedMode ==
  [][(last'.op = "get" /\ last'.asked \in {"noconn", "failed"}) =>
       \A wkpl_nm \in Names, bzowr_rgst_no \in RegNos :
         (/\ Matching(workplace_cache, wkpl_nm, bzowr_rgst_no) = {}
          /\ GetWorkplaceData(wkpl_nm, bzowr_rgst_no)) =>
            /\ ~last'.raised
            /\ last'.ret = {}
            /\ UNCHANGED dbVars]_vars

\* C9: a call missed locally, the remote query failed on an established
\* connection, and the call returned the empty result
C9_Witness ==
  /\ last.op = "get"
  /\ last.local = {}
  /\ last.asked = "failed"
  /\ last.ret = {}
  /\ ~last.raised
  /\ supabase_connection = "conn"

\* C10 (remote-health flag): get_cache_stats called after a get_workplace_data
\* call that returned empty because the remote could not be queried reports
\* supabase_connected false.
C10_HealthFlag ==
  [][(/\ last.op = "get"
      /\ ~last.raised
      /\ last.ret = {}
      /\ last.asked \in {"noconn", "failed"}
      /\ GetCacheStats) => ~last'.supabase_connected]_vars

\* C10: statistics were read while the connection the process holds can no
\* longer execute a query
C10_Witness ==
  /\ last.op = "stats"
  /\ pg_status = "failed"

\* C11 (upsert-replace): the store holds at most one record per seq, and a
\* call of set_workplace_cache with operation insert or update on a complete
\* record returns normally and leaves exactly one record of that seq, whose
\* fields are those of the call in full, with sync_status pending.
C11_UpsertReplace ==
  [][/\ \A r1, r2 \in workplace_cache' : r1.seq = r2.seq => r1 = r2
     /\ \A d \in Inputs, operation \in {"insert", "update"} :
          (NotNullOk(d) /\ SetWorkplaceCache(d, operation)) =>
             /\ ~last'.raised
             /\ RowsOf(workplace_cache', d.seq) = {NewRow(d)}
             /\ Matching(workplace_cache', d.wkplNm, NULL) \cap RowsOf(workplace_cache', d.seq)
                  = {NewRow(d)}]_vars

\* C11: an upsert was called on a store that holds no record, and the store
\* holds none afterwards
C11_Witness ==
  /\ last.op = "set"
  /\ last.raised
  /\ workplace_cache = {}

\* C12 (delete): a call of set_workplace_cache with operation delete for a seq
\* returns normally, leaves no record of that seq and appends exactly one
\* ledger entry: operation delete, data_before the prior row (NULL if there
\* was none), data_after NULL, pending.
C12_Delete ==
  [][\A d \in Inputs :
       (Get(d, "seq") # NULL /\ SetWorkplaceCache(d, "delete")) =>
          /\ ~last'.raised
          /\ RowsOf(workplace_cache', d.seq) = {}
          /\ workplace_cache' = workplace_cache \ RowsOf(workplace_cache, d.seq)
          /\ Len(sync_log') = Len(sync_log) + 1
          /\ LET e == sync_log'[Len(sync_log')] IN
               /\ e.operation = "delete"
               /\ e.record_id = d.seq
               /\ e.data_before = RowsOf(workplace_cache, d.seq)
               /\ e.data_after = {}
               /\ e.sync_status = "pending"]_vars

\* C12: a mutating call has failed on a store that holds records (a delete
\* of one of them among the calls that end so)
C12_Witness ==
  /\ last.op = "set"
  /\ last.raised
  /\ workplace_cache # {}
  /\ db_lock = "leaked"

\* C13 (fingerprint): generate_request_hash gives two calls the same token
\* exactly when they have the same api_type and the same key/value pairs,
\* whatever the order the pairs were inserted in.
C13_Fingerprint ==
  last.op = "hash" =>
    ((last.hash1 = last.hash2) <=>
       (last.api_type1 = last.api_type2 /\ Items(last.params1) = Items(last.params2)))

\* C13: two dicts with the same pairs in different insertion orders were
\* hashed
C13_Witness ==
  /\ last.op = "hash"
  /\ last.api_type1 = last.api_type2
  /\ last.params1 # last.params2
  /\ Items(last.params1) = Items(last.params2)
  /\ last.hash1 = last.hash2


\* C14: a put with ttl = 0 that returned is a miss for its fingerprint at the
\* instant of the put and at every later time, until another put: a get of the
\* fingerprint last put with expires_hours = 0 returns None, and so does a get
\* of any entry whose expires_at is not after the local time.
C14_ZeroTtlMiss ==
  /\ (last.op = "api_set" /\ ~last.raised /\ last.expires_hours = 0)
       => /\ \E r \in api_cache : r.request_hash = last.request_hash
          /\ get_api_cache(api_cache, db_lock, last.request_hash,
                           LocalNow(now, tz)) = [raised |-> FALSE, ret |-> NULL,
                                                 table |-> api_cache]
  /\ \A r \in api_cache :
       (r.expires_at # NoExpiry /\ r.expires_at[1] <= LocalNow(now, tz))
         => get_api_cache(api_cache, db_lock, r.request_hash,
                          LocalNow(now, tz)).ret = NULL

\* a put with expires_hours = 0 has returned, an hour has passed, and its
\* entry is still stored
C14_Witness ==
  /\ last.op = "api_set" /\ ~last.raised /\ last.expires_hours = 0
  /\ now > 0
  /\ \E r \in api_cache : r.request_hash = last.request_hash
                           /\ r.expires_at = <<LocalNow(0, tz)>>


\* C15: lazy expiration. A get of a fingerprint whose entry has expires_at in
\* the future returns the stored response; once expires_at is not in the
\* future the get is a miss although the row exists, and that get leaves the
\* entry as it was (no access_count increment, no deletion).
C15_LazyExpiration ==
  [][\A c \in ApiCalls :
       GetApiCache(c[1], c[2]) =>
         \A r \in api_cache :
           r.request_hash = generate_request_hash(c[1], c[2]) =>
             /\ (r.expires_at # NoExpiry /\ r.expires_at[1] > LocalNow(now, tz))
                  => (~last'.raised /\ last'.ret = r.response_data)
             /\ (r.expires_at # NoExpiry /\ r.expires_at[1] <= LocalNow(now, tz))
                  => (~last'.raised /\ last'.ret = NULL /\ api_cache' = api_cache)]_vars

\* a get of an entry that has not expired raised
C15_Witness ==
  /\ last.op = "api_get" /\ last.raised
  /\ \E r \in api_cache : /\ r.request_hash = last.request_hash
                           /\ r.expires_at # NoExpiry
                           /\ r.expires_at[1] > LocalNow(now, tz)

\* C16: cache uniqueness. api_cache holds at most one entry per request_hash
\* and every access_count is at least 1; a put for a request_hash that has an
\* entry replaces it: afterwards the one entry of that hash has the new
\* response, the new expires_at and access_count 1.
C16_CacheUniqueness ==
  [][/\ \A r1, r2 \in api_cache' : r1.request_hash = r2.request_hash => r1 = r2
     /\ \A r \in api_cache' : r.access_count >= 1
     /\ \A c \in ApiCalls, response_data \in Responses, expires_hours \in TtlHours :
          (/\ SetApiCache(c[1], c[2], response_data, expires_hours)
           /\ \E r \in api_cache : r.request_hash = generate_request_hash(c[1], c[2]))
            => /\ ~last'.raised
               /\ {r \in api_cache' : r.request_hash = generate_request_hash(c[1], c[2])}
                    = {ApiRow(generate_request_hash(c[1], c[2]), response_data,
                              <<LocalNow(now, tz) + expires_hours>>)}]_vars

\* a put for a request_hash that has an entry raised
C16_Witness ==
  /\ last.op = "api_set" /\ last.raised
  /\ \E r \in api_cache : r.request_hash = last.request_hash

\* C17: cleanup_expired_cache removes every api_cache entry whose expires_at is
\* earlier than now and no other (unexpired entries and entries without
\* expires_at stay as they are), and a second cleanup at the same time leaves
\* the cache unchanged.
C17_SweepExpired ==
  [][CleanupExpiredCache =>
       /\ ~last'.raised
       /\ api_cache' = {r \in api_cache :
                          r.expires_at = NoExpiry \/ r.expires_at[1] >= LocalNow(now, tz)}
       /\ cleanup_expired_cache(api_cache', sync_log', db_lock',
                                LocalNow(now', tz')).api = api_cache']_vars

\* a cleanup raised and an entry whose expires_at has passed is still stored
C17_Witness ==
  /\ last.op = "cleanup" /\ last.raised
  /\ \E r \in api_cache : r.expires_at # NoExpiry /\ r.expires_at[1] < LocalNow(now, tz)


\* C18: ledger garbage collection never removes a pending or error entry,
\* whatever its age; the entries it removes are synced and were created more
\* than the 30-day retention window before now; workplace_cache is untouched.
C18_LedgerGc ==
  [][CleanupExpiredCache =>
       /\ workplace_cache' = workplace_cache
       /\ \A i \in DOMAIN sync_log :
            (\A j \in DOMAIN sync_log' : sync_log'[j] # sync_log[i])
              => /\ sync_log[i].sync_status = "synced"
                 /\ now - sync_log[i].created_at > Retention]_vars

\* a cleanup has removed a synced entry created less than 30 days before
C18_Witness ==
  /\ last.op = "cleanup" /\ ~last.raised
  /\ \E e \in last.log_deleted : /\ e.sync_status = "synced"
                                  /\ now - e.created_at < Retention

\* C19: mark_sync_completed(id, success) makes the entry synced with its
\* synced_at set and makes the record whose seq is the entry's record_id synced
\* (no row is created when there is none); mark_sync_completed(id, failure,
\* detail) makes the entry error with the detail; neither appends an entry nor
\* changes another entry or another field of a record.
C19_MarkOutcome ==
  [][\A sync_id \in 1..MaxLog, success \in BOOLEAN :
       (/\ MarkSyncCompleted(sync_id, success, "statement failed")
        /\ \E i \in DOMAIN sync_log : sync_log[i].id = sync_id)
         => /\ ~last'.raised
            /\ DOMAIN sync_log' = DOMAIN sync_log
            /\ \A i \in DOMAIN sync_log :
                 sync_log'[i] =
                   IF sync_log[i].id # sync_id THEN sync_log[i]
                   ELSE IF success
                     THEN [sync_log[i] EXCEPT !.sync_status = "synced", !.synced_at = "now"]
                     ELSE [sync_log[i] EXCEPT !.sync_status = "error",
                                              !.error_message = "statement failed"]
            /\ workplace_cache' =
                 {IF success /\ r.seq = EntryOf(sync_log, sync_id).record_id
                    THEN [r EXCEPT !.sync_status = "synced"] ELSE r : r \in workplace_cache}]_vars

\* a mark_sync_completed for an entry of the ledger raised
C19_Witness ==
  /\ last.op = "mark" /\ last.raised
  /\ \E i \in DOMAIN sync_log : sync_log[i].id = last.sync_id

\* C20: get_workplace_cache(wkpl_nm, bzowr_rgst_no) returns every stored row
\* with that name (and that registration number, when one is given), adds
\* exactly 1 to the access_count of each returned row and of no other, changes
\* no other field, and appends no ledger entry.
C20_FindByName ==
  [][\A wkpl_nm \in Names, bzowr_rgst_no \in RegNos :
       GetWorkplaceCache(wkpl_nm, bzowr_rgst_no) =>
         LET found == {r \in workplace_cache :
                         /\ r.wkpl_nm = wkpl_nm
                         /\ bzowr_rgst_no # NULL => r.bzowr_rgst_no = bzowr_rgst_no}
         IN /\ ~last'.raised
            /\ last'.rows = found
            /\ workplace_cache' =
                 {IF r \in found THEN [r EXCEPT !.access_count = r.access_count + 1]
                  ELSE r : r \in workplace_cache}
            /\ sync_log' = sync_log]_vars

\* a get_workplace_cache raised although rows are stored
C20_Witness ==
  /\ last.op = "find" /\ last.raised
  /\ workplace_cache # {}


\* C21: save_workplace_data of a complete record (insert or update) does not
\* raise, whatever becomes of the remote write; after it the record is stored,
\* found by its name, and the ledger has one more entry, pending, for it.
C21_SaveLocalFirst ==
  [][\A d \in Inputs, operation \in {"insert", "update"} :
       (NotNullOk(d) /\ SaveWorkplaceData(d, operation)) =>
          /\ ~last'.raised
          /\ NewRow(d) \in Matching(workplace_cache', d.wkplNm, NULL)
          /\ Len(sync_log') = Len(sync_log) + 1
          /\ sync_log'[Len(sync_log')].record_id = d.seq
          /\ sync_log'[Len(sync_log')].sync_status = "pending"]_vars

\* a save_workplace_data raised before the remote write was reached, and the
\* ledger has no entry
C21_Witness ==
  /\ last.op = "save" /\ last.raised /\ last.wrote = "no"
  /\ sync_log = <<>>


\* C22: eventual consistency. When a drain has run to its end and the remote
\* executed every entry, no entry is pending, and for every record the drain
\* propagated the remote row equals the local record, and is absent when the
\* record is not stored locally.
C22_EventualConsistency ==
  [][(/\ SyncPendingReturn
      /\ \A i \in DOMAIN drain_log : drain_log[i].error = NULL)
       => /\ Pending(sync_log') = {}
          /\ \A i \in DOMAIN drain_log :
               LET s == EntryOf(sync_log, drain_log[i].id).record_id IN
                 RowsOf(remote', s) = RowsOf(Content(workplace_cache'), s)]_vars

\* a drain has ended, no entry is pending, the record T1 is marked synced and
\* the remote row of T1 has another registration number
C22_Witness ==
  /\ last = DrainResult(FALSE, TRUE)
  /\ sync_log # <<>> /\ Pending(sync_log) = {}
  /\ \E r \in workplace_cache, q \in remote :
       /\ r.seq = q.seq
       /\ r.sync_status = "synced"
       /\ r.bzowr_rgst_no # q.bzowr_rgst_no


\* C23: when two sync_pending_operations run at the same time, no ledger entry
\* is processed by both: the entries one of them has applied and recorded are
\* not entries the other has applied and recorded.
C23_NoDoubleProcessing ==
  \A i \in DOMAIN drain_log : drain_log[i].id \notin drain2.done

\* both drains are in their loops and one entry has been processed by the two
C23_Witness ==
  /\ drain_pc = "loop" /\ drain2.pc = "loop"
  /\ \E i \in DOMAIN drain_log : drain_log[i].id \in drain2.done


\* The hits the callers have been returned
RECURSIVE CountHits(_, _)
CountHits(S, field) ==
  IF S = {} THEN 0
  ELSE LET c == CHOOSE x \in S : TRUE IN calls[c][field] + CountHits(S \ {c}, field)

\* C24: access accounting loses no update and the lock is always released.
\* The access_count of the cache entry (of the record) is 1 plus the number of
\* hits on it that callers sharing the NPSCache object were returned, at most
\* one caller is inside a method, and NPSCache.lock is held only by a caller
\* that is inside a method: it is free after every return and every exception.
C24_AccessAccounting ==
  /\ \A r \in api_cache : r.access_count = 1 + CountHits(Callers, "api_hits")
  /\ \A r \in workplace_cache : r.access_count = 1 + CountHits(Callers, "record_hits")
  /\ \A c \in Callers : calls[c].pc = "inside" <=> cache_lock[calls[c].cache] = c

\* two callers were inside get_api_cache one after the other while both calls
\* were in progress, each was returned a hit, a call of set_workplace_cache
\* raised, and the lock is free
C24_Witness ==
  /\ \A c \in Callers : calls[c].api_hits = 1
  /\ \E r \in api_cache : r.access_count = 3
  /\ last.op = "call" /\ last.raised
  /\ cache_lock["sync.cache"] = "free"


\* C25: a write (insert, update or delete) whose record has no seq raises to
\* the caller of save_workplace_data, and nothing is written: workplace_cache,
\* sync_log and the remote are as before the call.
C25_InvalidInput ==
  [][\A d \in Inputs, operation \in MutOps :
       (Get(d, "seq") = NULL /\ SaveWorkplaceData(d, operation)) =>
          /\ last'.raised
          /\ workplace_cache' = workplace_cache
          /\ sync_log' = sync_log
          /\ next_id' = next_id
          /\ remote' = remote]_vars

\* a save of a record without seq has raised while records and pending entries
\* are stored and the remote is connected
C25_Witness ==
  /\ last.op = "save" /\ last.seq = NULL /\ last.raised
  /\ workplace_cache # {} /\ sync_log # <<>>
  /\ supabase_connection = "conn"


\* C26: avg_monthly_salary is present exactly when jnngpCnt is present and
\* greater than 0 and crrmmNtcAmt is present, an amount of 0 included; it then
\* equals crrmmNtcAmt / 0.09 / jnngpCnt + 200000 in real division.
C26_SalaryDerivation ==
  last.op = "salary" =>
    LET n == last.jnngp_cnt
        a == last.crrmm_ntc_amt
        v == last.avg_monthly_salary
    IN /\ v # None <=> (n # None /\ n[1] > 0 /\ a # None)
       /\ v # None =>
            v[1] * (RateHundredths * n[1])
              = (a[1] * 100 + Allowance * RateHundredths * n[1]) * v[2]

\* the derivation was applied to a positive count and an amount of 0 and gave
\* None
C26_Witness ==
  /\ last.op = "salary"
  /\ last.jnngp_cnt # None /\ last.jnngp_cnt[1] > 0
  /\ last.crrmm_ntc_amt = <<0>>
  /\ last.avg_monthly_salary = None


\* C27: cache round trip and hit accounting. A put with hours to live returns
\* and a get of the same request at that time returns the response put; a get
\* that finds a live entry returns its response and adds exactly 1 to its
\* access_count, leaving every other entry and the entry's other fields as
\* they were; a get of a request with no entry returns None and changes nothing.
C27_RoundTrip ==
  [][/\ \A c \in ApiCalls, response_data \in Responses, expires_hours \in TtlHours :
          (expires_hours > 0 /\ SetApiCache(c[1], c[2], response_data, expires_hours))
            => /\ ~last'.raised
               /\ get_api_cache(api_cache', db_lock', generate_request_hash(c[1], c[2]),
                                LocalNow(now', tz')).ret = response_data
     /\ \A c \in ApiCalls :
          GetApiCache(c[1], c[2]) =>
            LET entries == {r \in api_cache :
                              r.request_hash = generate_request_hash(c[1], c[2])}
            IN /\ \A r \in entries :
                    (r.expires_at = NoExpiry \/ r.expires_at[1] > LocalNow(now, tz))
                      => /\ ~last'.raised
                         /\ last'.ret = r.response_data
                         /\ api_cache' = (api_cache \ {r})
                              \cup {[r EXCEPT !.access_count = r.access_count + 1]}
               /\ entries = {} => (~last'.raised /\ last'.ret = NULL
                                   /\ api_cache' = api_cache)]_vars

\* a put with an hour to live raised and its request has no entry
C27_Witness ==
  /\ last.op = "api_set" /\ last.raised /\ last.expires_hours > 0
  /\ \A r \in api_cache : r.request_hash # last.request_hash


\* C28: ledger ids are strictly increasing in append order and never reused.
\* Every id stored is below the counter, the counter never goes down (a purge
\* does not lower it), and a step that appends adds one entry at the end whose
\* id is not below the counter, so above every id ever given, and leaves the
\* entries before it as they were.
C28_LedgerIds ==
  [][/\ \A i \in DOMAIN sync_log' : sync_log'[i].id < next_id'
     /\ \A i, j \in DOMAIN sync_log' : i < j => sync_log'[i].id < sync_log'[j].id
     /\ next_id' >= next_id
     /\ \A operation \in {"update", "delete"} :
          (LogSyncOperation(operation, "T1") /\ ~last'.raised)
            => /\ Len(sync_log') = Len(sync_log) + 1
               /\ SubSeq(sync_log', 1, Len(sync_log)) = sync_log
               /\ sync_log'[Len(sync_log')].id >= next_id
               /\ \A i \in DOMAIN sync_log :
                    sync_log[i].id < sync_log'[Len(sync_log')].id]_vars

\* an entry was appended after the entry with the id before its own was purged
C28_Witness ==
  /\ last.op = "log" /\ ~last.raised
  /\ \E i \in DOMAIN sync_log :
       /\ sync_log[i].id = next_id - 1
       /\ \A j \in DOMAIN sync_log : sync_log[j].id # sync_log[i].id - 1
       /\ sync_log[i].id > 1

\* C29 (interrupted drain): when the process ends while a drain is between
\* two entries, every entry the drain has attempted is stored with its outcome
\* (synced when it was applied, error when it was not), every entry it has not
\* attempted is stored as it was read, still pending, and the entries a later
\* drain reads are exactly those.
C29_InterruptedDrain ==
  [][(drain_pc = "loop" /\ Restart) =>
       /\ \A i \in DOMAIN drain_log :
            EntryOf(sync_log', drain_log[i].id).sync_status =
              (IF drain_log[i].error = NULL THEN "synced" ELSE "error")
       /\ \A k \in DOMAIN pending_ops :
            /\ pending_ops[k].sync_status = "pending"
            /\ EntryOf(sync_log', pending_ops[k].id) = pending_ops[k]
       /\ \A ops \in get_pending_sync_operations(sync_log') :
            {ops[k].id : k \in DOMAIN ops} = {pending_ops[k].id : k \in DOMAIN pending_ops}
       /\ drain_pc' = "idle"]_vars

\* C29: a drain over two entries has attempted the first, which failed, and
\* not yet the second: the point where it is interrupted
C29_Witness ==
  /\ drain_pc = "loop"
  /\ Len(drain_log) = 1
  /\ drain_log[1].error # NULL
  /\ Len(pending_ops) = 1
  /\ pending_ops[1].id # drain_log[1].id

\* C30 (ledger entries move forward only): over every step, an entry of the
\* ledger keeps its operation, record_id, data_before and data_after, and its
\* sync_status stays as it is or goes from pending to synced, from pending to
\* error or from error to synced: a synced entry stays synced.
C30_ForwardOnly ==
  [][\A i \in DOMAIN sync_log : \A j \in DOMAIN sync_log' :
       sync_log[i].id = sync_log'[j].id =>
         /\ sync_log'[j].operation = sync_log[i].operation
         /\ sync_log'[j].record_id = sync_log[i].record_id
         /\ sync_log'[j].data_before = sync_log[i].data_before
         /\ sync_log'[j].data_after = sync_log[i].data_after
         /\ \/ sync_log'[j].sync_status = sync_log[i].sync_status
            \/ <<sync_log[i].sync_status, sync_log'[j].sync_status>> \in
                 {<<"pending", "synced">>, <<"pending", "error">>, <<"error", "synced">>}]_vars

\* C30: an entry that was marked synced (synced_at is set) is in error
C30_Witness ==
  \E i \in DOMAIN sync_log :
    /\ sync_log[i].sync_status = "error"
    /\ sync_log[i].synced_at # NULL

C32_ReadThrough ==
  [][\A c \in ApiCalls, api_data \in ApiResults, expires_hours \in TtlHours :
       GetApiDataWithCache(c[1], c[2], api_data, expires_hours) =>
         LET request_hash == generate_request_hash(c[1], c[2])
             t == LocalNow(now, tz)
             live == Found(api_cache, request_hash, t)
         IN /\ ~last'.raised
            /\ live # {} =>
                 /\ last'.called = 0
                 /\ \A r \in live : last'.ret = r.response_data
            /\ live = {} =>
                 /\ last'.called = 1
                 /\ IF NonEmpty(api_data)
                      THEN /\ last'.ret = api_data
                           /\ ApiRow(request_hash, api_data, <<t + expires_hours>>)
                                \in api_cache'
                      ELSE /\ last'.ret = NULL
                           /\ api_cache' = api_cache]_vars

\* C32: a call through the cache ended with an exception
C32_Witness == last.op = "api_through" /\ last.raised

\* C33 (a drain keeps the local data): over every step of
\* sync_pending_operations the local table holds the same records with the
\* same fields, sync_status apart, and the ledger holds the same entries, in
\* the same order, none added and none removed.
C33_DrainKeepsLocalData ==
  [][(SyncPendingStart \/ SyncPendingStep \/ SyncPendingReturn) =>
       /\ {[r EXCEPT !.sync_status = "any"] : r \in workplace_cache'}
            = {[r EXCEPT !.sync_status = "any"] : r \in workplace_cache}
       /\ Cardinality(workplace_cache') = Cardinality(workplace_cache)
       /\ Len(sync_log') = Len(sync_log)
       /\ \A i \in DOMAIN sync_log :
            /\ sync_log'[i].id = sync_log[i].id
            /\ sync_log'[i].operation = sync_log[i].operation
            /\ sync_log'[i].record_id = sync_log[i].record_id
            /\ sync_log'[i].data_after = sync_log[i].data_after
       /\ next_id' = next_id]_vars

\* C33: a drain has applied an entry and failed to apply another, and the
\* record of the applied entry is in the local table, marked synced
C33_Witness ==
  /\ drain_pc = "loop"
  /\ \E i, j \in DOMAIN drain_log :
       /\ drain_log[i].error = NULL
       /\ drain_log[j].error # NULL
       /\ \E r \in workplace_cache :
            /\ r.seq = EntryOf(sync_log, drain_log[i].id).record_id
            /\ r.sync_status = "synced"

\* C34 (mutual exclusion per database file): no two callers are inside the
\* locked region of an NPSCache method at the same time, also when they use
\* different NPSCache objects on the same file.
C34_OneRegionPerStore ==
  \A c, d \in Callers :
    (calls[c].pc = "inside" /\ calls[d].pc = "inside") => c = d

\* C34: a caller of sync.cache and a caller of a separate NPSCache are both
\* inside a method, each holding the lock of its object
C34_Witness ==
  /\ calls["c1"].pc = "inside" /\ calls["c1"].cache = "sync.cache"
  /\ calls["c2"].pc = "inside" /\ calls["c2"].cache = "NPSCache()"
  /\ cache_lock["sync.cache"] = "c1"
  /\ cache_lock["NPSCache()"] = "c2"

\* C35 (synced means propagated): in every state, a local record whose
\* sync_status is synced has no pending ledger entry for its seq.
C35_SyncedMeansNoPending ==
  \A r \in workplace_cache :
    r.sync_status = "synced" =>
      ~\E i \in DOMAIN sync_log : /\ sync_log[i].record_id = r.seq
                                  /\ sync_log[i].sync_status = "pending"

\* C35: a drain over two entries of one record has applied and marked the
\* first; the record is synced and the second entry is still to be processed
C35_Witness ==
  /\ drain_pc = "loop"
  /\ Len(drain_log) = 1 /\ drain_log[1].error = NULL
  /\ Len(pending_ops) = 1
  /\ pending_ops[1].record_id = EntryOf(sync_log, drain_log[1].id).record_id
  /\ \E r \in workplace_cache : r.seq = pending_ops[1].record_id /\ r.sync_status = "synced"

\* C36 (a save leaves the entry pending): save_workplace_data of a complete
\* record (insert or update), with the connection to the remote established
\* and usable, changes the status of no ledger entry and of no other record,
\* appends one entry for the record, pending, leaves the record pending, and
\* the next drain finds that entry among the pending ones and applies it
\* again.
C36_SavedEntryStaysPending ==
  [][\A d \in Inputs, operation \in {"insert", "update"} :
       (/\ NotNullOk(d)
        /\ supabase_connection = "conn" /\ pg_status = "ready" /\ db_lock = "free"
        /\ SaveWorkplaceData(d, operation)) =>
          /\ \A i \in DOMAIN sync_log : sync_log'[i] = sync_log[i]
          /\ \A r \in workplace_cache : r.seq # d.seq => r \in workplace_cache'
          /\ Len(sync_log') = Len(sync_log) + 1
          /\ sync_log'[Len(sync_log')].record_id = d.seq
          /\ sync_log'[Len(sync_log')].sync_status = "pending"
          /\ RowsOf(workplace_cache', d.seq) # {}
          /\ \A r \in RowsOf(workplace_cache', d.seq) : r.sync_status = "pending"
          /\ \A ops \in get_pending_sync_operations(sync_log') :
               \E k \in DOMAIN ops : ops[k].id = sync_log'[Len(sync_log')].id]_vars

\* C36: with the remote connected and usable, a save_workplace_data raised
\* before its remote write and no pending entry is left for a drain
C36_Witness ==
  /\ last.op = "save" /\ last.raised /\ last.wrote = "no"
  /\ supabase_connection = "conn" /\ pg_status = "ready"
  /\ Pending(sync_log) = {}
  /\ sync_log # <<>>

\* Which of the two contents of T1 a remote row holds
VersionOf(row) == IF row.wkpl_nm = Version(2).wkplNm THEN 2 ELSE 1

\* C37 (the remote never regresses): over every step, when the remote holds
\* T1 in the content of one ledger entry, it does not hold it afterwards in
\* the content of an older entry.
C37_RemoteNeverRegresses ==
  [][\A r \in RowsOf(remote, "T1"), q \in RowsOf(remote', "T1") :
       VersionOf(q) >= VersionOf(r)]_vars

\* C37: the drains are over, both entries are marked synced, and the remote
\* holds T1 in its first content while the local record has the second
C37_Witness ==
  /\ drain_pc = "idle" /\ drain2.pc = "idle"
  /\ \A i \in DOMAIN sync_log : sync_log[i].sync_status = "synced"
  /\ \E r \in RowsOf(remote, "T1") : VersionOf(r) = 1
  /\ \E r \in RowsOf(workplace_cache, "T1") : r.wkpl_nm = Version(2).wkplNm

\* C38 (a drain without a connection does nothing): a call of
\* sync_pending_operations while supabase_connection is None returns before
\* the loop; the remote and the state of the connection are as before, every
\* ledger entry and every local record is as before, the pending ones
\* included.
C38_DrainWithoutConnection ==
  [][(SyncPendingStart /\ supabase_connection = "None") =>
       /\ drain_pc' = "idle"
       /\ last' = DrainResult(FALSE, FALSE)
       /\ remote' = remote
       /\ pg_status' = pg_status
       /\ sync_log' = sync_log
       /\ workplace_cache' = workplace_cache
       /\ Pending(sync_log') = Pending(sync_log)]_vars

\* C38: a drain has returned without entering its loop, there is no
\* connection, and the ledger holds pending entries
C38_Witness ==
  /\ last = DrainResult(FALSE, FALSE)
  /\ supabase_connection = "None"
  /\ Pending(sync_log) # {}
  /\ drain_pc = "idle"

\* C39 (get and the sweep agree on expiry): a cleanup_expired_cache that
\* returns removes exactly the entries get_api_cache would not serve at that
\* time, so every entry it leaves is a hit, the one whose expires_at is that
\* very time included.
C39_SameExpiry ==
  [][(CleanupExpiredCache /\ ~last'.raised) =>
       api_cache' = {r \in api_cache : Live(r, LocalNow(now, tz))}]_vars

\* C39: no time has passed since the process started, a sweep has just
\* returned, and the cache holds an entry whose expires_at is the present
\* time, which get_api_cache does not serve
C39_Witness ==
  /\ now = 0
  /\ last.op = "cleanup" /\ ~last.raised
  /\ \E r \in api_cache :
       /\ r.expires_at = <<LocalNow(now, tz)>>
       /\ Found(api_cache, r.request_hash, LocalNow(now, tz)) = {}

\* C40 (the drains bring every entry to synced): when sync_pending_operations
\* is called again and again with the connection established, every call
\* runs to its end and remote writes succeed whenever they keep being tried,
\* then from some time on every ledger entry is synced.
C40_EventuallySynced ==
  <>[](\A i \in DOMAIN sync_log : sync_log[i].sync_status = "synced")

\* C40: a drain has returned, the connection is usable, an entry is in error
\* and no entry is pending: no later drain takes the entry up
C40_Witness ==
  /\ last = DrainResult(FALSE, TRUE)
  /\ drain_pc = "idle"
  /\ supabase_connection = "conn" /\ pg_status = "ready"
  /\ Pending(sync_log) = {}
  /\ \E i \in DOMAIN sync_log : sync_log[i].sync_status = "error"

====
